---- MODULE Spec2Model ----
(***************************************************************************)
(* Model of the administrative scripts of benlacey57/Linux-Scripts:        *)
(*   ftp/ftp_users.py        PasswordGenerator, FTPUserManager, main       *)
(*   ftp/ftp_debug.py        FTPDebugger._load_config, main                *)
(*   ftp/ftp_logs.py         main                                          *)
(*   tailscale/*.py          _load_config, run, main                       *)
(*                                                                         *)
(* Three specifications share the variables:                               *)
(*   SpecPw    PasswordGenerator.generate over a bounded set of policies   *)
(*   Spec      FTPUserManager: create_user, delete_user, change_password   *)
(*             acting on the account database, the allow-list file and     *)
(*             the credential log                                          *)
(*   SpecMain  the main() of each script: arguments, configuration         *)
(*             loading, root check, exit code                              *)
(*                                                                         *)
(* Text is modelled as sequences of one-character strings; a JSON object   *)
(* (a Python dict) is a function whose DOMAIN is the set of keys present.  *)
(***************************************************************************)
EXTENDS Integers, Sequences, FiniteSets, TLC

VARIABLES
    \* ---- SpecPw
    policy,      \* the password_policy dict handed to PasswordGenerator
    pw,          \* outcome of generate(): [status, value]
    \* ---- Spec
    config,      \* FTPUserManager.config (the loaded JSON object)
    accounts,    \* system accounts: `id u` succeeds iff u \in accounts
    userlist,    \* allow-list file: [exists, content]
    cred,        \* credential log file: [exists, mode, rows]
    pc,          \* position of the manager: "idle" or inside _log_credentials
    call,        \* the call in progress or last returned
    hist,        \* how the allow-list started: empty or edited by hand
    before,      \* allow-list and credential log when that call started
    ran,         \* external commands the call has run, in order
    \* ---- SpecMain
    script,      \* which script's main() runs
    argv1,       \* first command-line argument
    cfgfile,     \* what the configuration path holds
    euid,        \* effective uid of the process
    mpc,         \* position in main()
    loaded,      \* self.config after _load_config
    eff,         \* the values the constructors looked up
    opsrun,      \* number of checks / operations / setup steps run so far
    exitcode,    \* exit status of the process once it has ended
    \* ---- SpecDbg
    dbg,            \* which debugger runs: "ftp" or "tailscale"
    dbg_username,   \* run_diagnostics(username) of FTPDebugger, "" for None
    dpc,            \* index of the next check of run_diagnostics, or where it ended
    invoked,        \* the check procedures invoked so far, in order
    passed_checks,  \* self.passed_checks
    warnings,       \* self.warnings
    issues_found,   \* self.issues_found
    printed,        \* how many outcomes were printed with each mark
    summary,        \* the 'Total Checks' of the summary once printed
    \* ---- SpecRace
    race,           \* two managers at work on one allow-list: their positions and locals
    \* ---- SpecSetup
    setup,          \* TailscaleSetup.run: its position, the system and what it did
    \* ---- SpecPorts
    sockets         \* what `netstat -tuln` and `ss -tuln` answer: their listings

pwvars == <<policy, pw>>
uservars == <<config, accounts, userlist, cred, pc, call, hist, before, ran>>
mainvars == <<script, argv1, cfgfile, euid, mpc, loaded, eff, opsrun, exitcode>>
dbgvars == <<dbg, dbg_username, dpc, invoked, passed_checks, warnings,
             issues_found, printed, summary>>
vars == <<policy, pw, config, accounts, userlist, cred, pc, call, hist,
          before, ran, script, argv1, cfgfile, euid, mpc, loaded, eff, opsrun,
          exitcode, dbg, dbg_username, dpc, invoked, passed_checks, warnings,
          issues_found, printed, summary, race, setup, sockets>>

(***************************************************************************)
(* Python helpers                                                          *)
(***************************************************************************)

\* dict.get(key, default)
Get(d, k, default) == IF k \in DOMAIN d THEN d[k] ELSE default

\* the empty dict {}
EmptyDict == [k \in {} |-> TRUE]

\* str.replace(c, '') for a one-character c
Replace(s, c) == SelectSeq(s, LAMBDA e : e # c)

\* the characters of a string, as a set
Chars(s) == {s[i] : i \in 1..Len(s)}

\* number of positions of s holding a character of the set cs
Count(s, cs) == Cardinality({i \in 1..Len(s) : s[i] \in cs})

\* s without its i-th element
Remove(s, i) == SubSeq(s, 1, i - 1) \o SubSeq(s, i + 1, Len(s))

\* every order SystemRandom().shuffle can leave the list in
RECURSIVE Shuffles(_)
Shuffles(s) ==
    IF s = <<>> THEN {<<>>}
    ELSE UNION { {<<p[1]>> \o t : t \in Shuffles(p[2])} :
                 p \in {<<s[i], Remove(s, i)>> : i \in 1..Len(s)} }

\* a shuffle that leaves the list as it is
ShufflesNone(s) == {s}

\* len(range(n)): the number of iterations of `for _ in range(n)`
RangeLen(n) == IF n > 0 THEN n ELSE 0

\* n draws of secrets.choice(seq): every list of n elements of seq
Choices(seq, n) == IF n <= 0 THEN {<<>>} ELSE [1..n -> Chars(seq)]

\* secrets.choice raises IndexError on an empty sequence
ChoiceRaises(seq, n) == n > 0 /\ seq = <<>>

(***************************************************************************)
(* PasswordGenerator (ftp_users.py 19-79)                                  *)
(***************************************************************************)

\* string.ascii_lowercase, string.ascii_uppercase, string.digits: one plain
\* character of each and the two that exclude_ambiguous removes
ascii_lowercase == <<"a", "l", "o">>
ascii_uppercase == <<"A", "I", "O">>
digits == <<"2", "0", "1">>

\* the default of special_chars, '!@#$%^&*-_=+': its first character
default_special_chars == <<"!">>

\* PasswordGenerator.__init__
pg_length(p) == Get(p, "length", 16)
include_uppercase(p) == Get(p, "include_uppercase", TRUE)
include_lowercase(p) == Get(p, "include_lowercase", TRUE)
include_digits(p) == Get(p, "include_digits", TRUE)
include_special(p) == Get(p, "include_special", TRUE)
special_chars(p) == Get(p, "special_chars", default_special_chars)
exclude_ambiguous(p) == Get(p, "exclude_ambiguous", TRUE)

\* the lowercase alphabet with only 'l' removed
lowercase_keeps_o(p) ==
    IF exclude_ambiguous(p) THEN Replace(ascii_lowercase, "l") ELSE ascii_lowercase
\* generate(): the three alphabets after the exclude_ambiguous replacements
lowercase(p) ==
    IF exclude_ambiguous(p) THEN Replace(Replace(ascii_lowercase, "l"), "o")
    ELSE ascii_lowercase
uppercase(p) ==
    IF exclude_ambiguous(p) THEN Replace(Replace(ascii_uppercase, "I"), "O")
    ELSE ascii_uppercase
pgdigits(p) ==
    IF exclude_ambiguous(p) THEN Replace(Replace(digits, "0"), "1")
    ELSE digits

\* generate(): charset after the four `if self.include_*` blocks
charset(p) ==
    (IF include_lowercase(p) THEN lowercase(p) ELSE <<>>)
    \o (IF include_uppercase(p) THEN uppercase(p) ELSE <<>>)
    \o (IF include_digits(p) THEN pgdigits(p) ELSE <<>>)
    \o (IF include_special(p) THEN special_chars(p) ELSE <<>>)

\* the `for _ in range(min_*)` loops run one iteration short
MinPicksShort(p, key) == RangeLen(Get(p, key, 2) - 1)

\* number of iterations of `for _ in range(self.policy.get(key, 2))`
MinPicks(p, key) == RangeLen(Get(p, key, 2))

\* the characters each `if self.include_*` block may append to password_chars
LowerPicks(p) ==
    IF include_lowercase(p) THEN Choices(lowercase(p), MinPicks(p, "min_lowercase"))
    ELSE {<<>>}
UpperPicks(p) ==
    IF include_uppercase(p) THEN Choices(uppercase(p), MinPicks(p, "min_uppercase"))
    ELSE {<<>>}
DigitPicks(p) ==
    IF include_digits(p) THEN Choices(pgdigits(p), MinPicks(p, "min_digits"))
    ELSE {<<>>}
SpecialPicks(p) ==
    IF include_special(p) THEN Choices(special_chars(p), MinPicks(p, "min_special"))
    ELSE {<<>>}

\* password_chars when the fill loop is reached
RequiredChars(p) ==
    {l \o u \o d \o s : l \in LowerPicks(p), u \in UpperPicks(p),
                        d \in DigitPicks(p), s \in SpecialPicks(p)}

\* remaining_length computed without subtracting what is already chosen
remaining_length_full(p, password_chars) == pg_length(p)

\* remaining_length = self.length - len(password_chars)
remaining_length(p, password_chars) == pg_length(p) - Len(password_chars)

\* password_chars after the fill loop
FilledChars(p) ==
    UNION { {r \o f : f \in Choices(charset(p), remaining_length(p, r))} :
            r \in RequiredChars(p) }

\* secrets.choice on an empty sequence: special_chars '' with a minimum to
\* draw, or an empty charset with characters left to fill
GenerateRaises(p) ==
    \/ include_special(p) /\ ChoiceRaises(special_chars(p), MinPicks(p, "min_special"))
    \/ \E r \in RequiredChars(p) : ChoiceRaises(charset(p), remaining_length(p, r))

\* every outcome of PasswordGenerator.generate() under policy p
generate(p) ==
    IF GenerateRaises(p) THEN {[status |-> "IndexError", value |-> <<>>]}
    ELSE {[status |-> "ok", value |-> s] :
          s \in UNION {Shuffles(f) : f \in FilledChars(p)}}

\* ---- the policies SpecPw starts from
MaxLength == 2
MaxMin == 1
MaxPicks == 4
MaxCharset == 4

\* S, and every dict of S with key k added holding a value of Vals
WithKey(S, k, Vals) == S \cup {(k :> v) @@ d : d \in S, v \in Vals}

AllPolicies ==
    LET p0 == {EmptyDict}
        p1 == WithKey(p0, "length", 0..MaxLength)
        p2 == WithKey(p1, "include_lowercase", {FALSE})
        p3 == WithKey(p2, "include_uppercase", {FALSE})
        p4 == WithKey(p3, "include_digits", {FALSE})
        p5 == WithKey(p4, "include_special", {FALSE})
        p6 == WithKey(p5, "min_lowercase", 0..MaxMin)
        p7 == WithKey(p6, "min_uppercase", 0..MaxMin)
        p8 == WithKey(p7, "min_digits", 0..MaxMin)
        p9 == WithKey(p8, "min_special", 0..MaxMin)
        p10 == WithKey(p9, "special_chars", {<<>>, <<"0">>})
    IN  WithKey(p10, "exclude_ambiguous", {FALSE})

\* characters the four minimum loops draw in all
PicksTotal(p) ==
    (IF include_lowercase(p) THEN MinPicks(p, "min_lowercase") ELSE 0)
    + (IF include_uppercase(p) THEN MinPicks(p, "min_uppercase") ELSE 0)
    + (IF include_digits(p) THEN MinPicks(p, "min_digits") ELSE 0)
    + (IF include_special(p) THEN MinPicks(p, "min_special") ELSE 0)

\* a policy whose passwords stay few enough to enumerate: few required
\* characters, a small charset, and a configured length or at most one
\* character to fill with
Enumerable(p) ==
    /\ PicksTotal(p) <= MaxPicks
    /\ Cardinality(Chars(charset(p))) <= MaxCharset
    /\ "length" \in DOMAIN p \/ Cardinality(Chars(charset(p))) <= 1

Policies == {p \in AllPolicies : Enumerable(p)}

NoPw == [status |-> "none", value |-> <<>>]

Generate ==
    /\ pw.status = "none"
    /\ pw' \in generate(policy)
    /\ UNCHANGED <<policy, uservars, mainvars, dbgvars, race, setup, sockets>>


(***************************************************************************)
(* FTPUserManager (ftp_users.py 82-373)                                    *)
(***************************************************************************)

\* ---- characters and usernames
Letters == {"a", "b", "c", "d", "e", "f", "i", "m", "n", "o", "p", "r", "s", "t", "y"}
DigitChars == {"0", "1", "2"}
Whitespace == {" ", "\t", "\n", "\r"}

\* str.isalpha(), str.isalnum() of one character
IsAlpha(c) == c \in Letters
IsAlnum(c) == c \in Letters \cup DigitChars

name_bob == <<"b", "o", "b">>
name_a32 == <<"a", "-", "1", "_">> \o [i \in 1..28 |-> "a"]
name_a33 == <<"a", "-", "1", "_">> \o [i \in 1..29 |-> "a"]
name_ab == <<"a", "b">>
name_1ab == <<"1", "a", "b">>
name_dot == <<"a", ".", "b">>
name_root == <<"r", "o", "o", "t">>
name_admin == <<"a", "d", "m", "i", "n">>
name_administrator == name_admin \o <<"i", "s", "t", "r", "a", "t", "o", "r">>
name_ftp == <<"f", "t", "p">>
name_test == <<"t", "e", "s", "t">>

\* the usernames the operations are called with
CreateNames ==
    {<<>>, name_ab, name_1ab, name_dot, name_a33, name_root, name_admin,
     name_administrator, name_ftp, name_test, name_bob, name_a32}
ManagedNames == {name_bob, name_a32, name_ab}

\* the list of validate_username: ['root', 'admin', 'administrator', 'ftp', 'test']
reserved_names == {name_root, name_admin, name_administrator, name_ftp, name_test}

\* validate_username without its upper length check
validate_username_no_max(username) ==
    IF username = <<>> THEN <<FALSE, "Username cannot be empty">>
    ELSE IF Len(username) < 3 THEN <<FALSE, "Username must be at least 3 characters">>
    ELSE IF ~IsAlpha(username[1]) THEN <<FALSE, "Username must start with a letter">>
    ELSE IF ~(\A i \in 1..Len(username) : IsAlnum(username[i]) \/ username[i] \in {"-", "_"})
         THEN <<FALSE, "Username can only contain letters, numbers, hyphens, and underscores">>
    ELSE IF username \in reserved_names THEN <<FALSE, "Username is reserved">>
    ELSE <<TRUE, "">>

\* FTPUserManager.validate_username: (valid, message)
validate_username(username) ==
    IF username = <<>> THEN <<FALSE, "Username cannot be empty">>
    ELSE IF Len(username) < 3 THEN <<FALSE, "Username must be at least 3 characters">>
    ELSE IF Len(username) > 32 THEN <<FALSE, "Username must be 32 characters or less">>
    ELSE IF ~IsAlpha(username[1]) THEN <<FALSE, "Username must start with a letter">>
    ELSE IF ~(\A i \in 1..Len(username) : IsAlnum(username[i]) \/ username[i] \in {"-", "_"})
         THEN <<FALSE, "Username can only contain letters, numbers, hyphens, and underscores">>
    ELSE IF username \in reserved_names THEN <<FALSE, "Username is reserved">>
    ELSE <<TRUE, "">>

\* a check that finds no account
user_exists_never(username) == FALSE

\* FTPUserManager.user_exists: `id username` exits 0
user_exists(username) == username \in accounts

\* ---- text files
\* str.strip(): leading and trailing whitespace removed
RECURSIVE LStrip(_)
LStrip(s) == IF s # <<>> /\ Head(s) \in Whitespace THEN LStrip(Tail(s)) ELSE s
RECURSIVE RStrip(_)
RStrip(s) ==
    IF s # <<>> /\ s[Len(s)] \in Whitespace THEN RStrip(SubSeq(s, 1, Len(s) - 1)) ELSE s
Strip(s) == RStrip(LStrip(s))

\* index of the first newline of s, 0 when it has none
RECURSIVE FirstNewline(_, _)
FirstNewline(s, i) ==
    IF i > Len(s) THEN 0 ELSE IF s[i] = "\n" THEN i ELSE FirstNewline(s, i + 1)

\* f.readlines(), and iteration over f: the lines, each with its newline
RECURSIVE readlines(_)
readlines(content) ==
    IF content = <<>> THEN <<>>
    ELSE LET n == FirstNewline(content, 1)
         IN  IF n = 0 THEN <<content>>
             ELSE <<SubSeq(content, 1, n)>> \o readlines(SubSeq(content, n + 1, Len(content)))

\* the lines written one after the other
RECURSIVE JoinLines(_)
JoinLines(ls) == IF ls = <<>> THEN <<>> ELSE Head(ls) \o JoinLines(Tail(ls))

\* ---- configuration lookups of FTPUserManager
ftp_config == Get(config, "ftp_config", EmptyDict)
logging_config == Get(config, "logging", EmptyDict)
\* ftp_root read without its default
ftp_root_none == IF "ftp_root" \in DOMAIN ftp_config THEN ftp_config["ftp_root"] ELSE "None"
ftp_root == Get(ftp_config, "ftp_root", "/srv/ftp")
logging_enabled == Get(logging_config, "enabled", TRUE)
credentials_file == Get(logging_config, "credentials_file", "/root/.ftp_credentials.csv")
allowed_users_file == Get(ftp_config, "allowed_users_file", "/etc/vsftpd.userlist")

\* ---- the allow-list in create_user
\* create_user, 226-229: the file is created empty when it does not exist
TouchUserlist(ul) == IF ul.exists THEN ul ELSE [path |-> ul.path, exists |-> TRUE, content |-> <<>>]

\* create_user, 232-233: existing_users = [line.strip() for line in f]
existing_users(ul) == LET ls == readlines(ul.content) IN {Strip(ls[i]) : i \in 1..Len(ls)}

\* create_user, 223-240
AddToUserlist(ul, username) ==
    LET f == TouchUserlist(ul)
    IN  IF username \notin existing_users(f)
        THEN [f EXCEPT !.content = @ \o username \o <<"\n">>]
        ELSE f

\* ---- the allow-list in delete_user
\* a filter that drops every line containing the username
RECURSIVE ContainsAt(_, _, _)
ContainsAt(line, username, i) ==
    IF i + Len(username) - 1 > Len(line) THEN FALSE
    ELSE IF SubSeq(line, i, i + Len(username) - 1) = username THEN TRUE
    ELSE ContainsAt(line, username, i + 1)
KeepsLineSubstring(line, username) == ~ContainsAt(line, username, 1)

\* delete_user, 327: `if line.strip() != username`
KeepsLine(line, username) == Strip(line) # username

\* delete_user, 321-328: the file rewritten without the lines of username
RemoveFromUserlist(ul, username) ==
    IF ul.exists
    THEN [ul EXCEPT !.content =
              JoinLines(SelectSeq(readlines(ul.content), LAMBDA l : KeepsLine(l, username)))]
    ELSE ul

\* ---- the credential log
HeaderRow == <<"Timestamp", "Username", "Password", "Home Directory", "Files Directory">>

\* _log_credentials, 285-290: the row of one credential
CredentialRow(username, password) ==
    <<"timestamp", username, password, <<ftp_root, "/", username>>,
      <<ftp_root, "/", username, "/files">>>>

\* _log_credentials, 276 and 282: file_exists = credentials_file.exists(),
\* taken before the open; the header is written `if not file_exists`
NeedsHeader(c) == ~c.exists

\* _log_credentials, 279-297: open(credentials_file, 'a') has created the
\* file and the write fails with an I/O error (a full disk): the file is
\* left empty, `except IOError` prints a warning
CreatedEmpty(c, create_mode) ==
    [path |-> credentials_file, exists |-> TRUE, mode |-> create_mode, rows |-> <<>>]

\* the log opened with 'w': what it held is dropped
AppendCredentialsTruncate(c, username, password, create_mode) ==
    [path |-> credentials_file,
     exists |-> TRUE,
     mode |-> IF c.exists THEN c.mode ELSE create_mode,
     rows |-> <<HeaderRow, CredentialRow(username, password)>>]

\* _log_credentials, 276-290: open(credentials_file, 'a') creates the file
\* with the mode the umask leaves, writes the header into a new file, then
\* the row; the file is closed (flushed) before chmod runs
AppendCredentials(c, username, password, create_mode) ==
    [path |-> credentials_file,
     exists |-> TRUE,
     mode |-> IF c.exists THEN c.mode ELSE create_mode,
     rows |-> c.rows \o (IF NeedsHeader(c) THEN <<HeaderRow>> ELSE <<>>)
                     \o <<CredentialRow(username, password)>>]

\* _log_credentials returning without the chmod of line 293
ChmodSkipped(c) == c

\* _log_credentials, 293: os.chmod(credentials_file, 0o600)
ChmodCredentials(c) == [c EXCEPT !.mode = "0600"]

\* the mode open() gives a new file: 0666 masked by the umask (022 or 077)
CreateModes == {"0644", "0600"}

\* ---- values of the variables a specification does not use
UserIdle ==
    /\ config = EmptyDict
    /\ accounts = {}
    /\ userlist = [path |-> "none", exists |-> FALSE, content |-> <<>>]
    /\ cred = [path |-> "none", exists |-> FALSE, mode |-> "none", rows |-> <<>>]
    /\ pc = "idle"
    /\ call = [op |-> "none"]
    /\ hist = [op |-> "none"]
    /\ before = [op |-> "none"]
    /\ ran = <<>>

MainIdle ==
    /\ script = "none"
    /\ argv1 = "none"
    /\ cfgfile = [kind |-> "missing", value |-> EmptyDict]
    /\ euid = 0
    /\ mpc = "none"
    /\ loaded = "none"
    /\ eff = EmptyDict
    /\ opsrun = 0
    /\ exitcode = <<>>

DbgIdle ==
    /\ dbg = "none"
    /\ dbg_username = ""
    /\ dpc = 0
    /\ invoked = <<>>
    /\ passed_checks = <<>>
    /\ warnings = <<>>
    /\ issues_found = <<>>
    /\ printed = [pass |-> 0, warn |-> 0, fail |-> 0]
    /\ summary = <<>>

PwIdle ==
    /\ policy = EmptyDict
    /\ pw = [status |-> "none", value |-> <<>>]

RaceIdle == race = [dpc |-> "none", cpc |-> "none"]

SetupIdle == setup = [spc |-> "none"]

SocketsIdle == sockets = [netstat |-> "none", ss |-> "none"]

\* ---- bookkeeping of a call
MaxRows == 2

Command(cmd, rc) == [cmd |-> cmd, rc |-> rc]
Snapshot == [accounts |-> accounts, userlist |-> userlist, cred |-> cred]
NumCredentialRows(c) == Cardinality({i \in 1..Len(c.rows) : c.rows[i] # HeaderRow})

\* the record of a call: its arguments, the step that failed in it (if one
\* did), and what it returned ("pending" until it returns)
CallRecord(op, username, password, failed, result, ret) ==
    [op |-> op, username |-> username, password |-> password, failed |-> failed,
     result |-> result, ret |-> ret]

\* ---- create_user
\* the `except subprocess.CalledProcessError` handler without its cleanup
CleanupNone(username, accts, userdel_ok) == [accounts |-> accts, ran |-> <<>>]

\* create_user, 253-258: userdel -r when the account exists; its exit code
\* is not looked at
Cleanup(username, accts, userdel_ok) ==
    IF username \in accts
    THEN [accounts |-> IF userdel_ok THEN accts \ {username} ELSE accts,
          ran |-> <<Command("userdel -r", IF userdel_ok THEN 0 ELSE 1)>>]
    ELSE [accounts |-> accts, ran |-> <<>>]

\* FTPUserManager.create_user(username, password). `generated` is what
\* password_generator.generate() returns when password is None; `fail` is the
\* first step that fails, `userdel_ok` the outcome of the cleanup's userdel,
\* `create_mode` the mode open() gives a credential log it creates.
CreateUser(username, password, generated, fail, userdel_ok, create_mode) ==
    /\ pc = "idle"
    /\ NumCredentialRows(cred) < MaxRows
    /\ before' = Snapshot
    /\ LET pwd == IF password = "None" THEN generated ELSE password
           created == accounts \cup {username}
           listed == AddToUserlist(userlist, username)
           \* the account is set up, then user_home.mkdir (206) is reached
           dirs(rc) == <<Command("useradd", 0), Command("chpasswd", 0), Command("mkdir", rc)>>
           Return(failed, result, accts, ul, cmds) ==
               /\ call' = CallRecord("create_user", username, password, failed, result,
                                     IF result = "ok" THEN <<TRUE, username, pwd>>
                                     ELSE <<FALSE, username, "">>)
               /\ accounts' = accts
               /\ userlist' = ul
               /\ ran' = cmds
               /\ hist' = hist
               /\ UNCHANGED <<cred, pc>>
       IN  IF ~validate_username(username)[1] THEN
               Return("validate_username", "fail", accounts, userlist, <<>>)
           ELSE IF user_exists(username) THEN
               Return("user_exists", "fail", accounts, userlist, <<>>)
           ELSE IF fail = "useradd" THEN
               \* useradd exits non-zero and adds nothing
               LET c == Cleanup(username, accounts, userdel_ok)
               IN  Return(fail, "fail", c.accounts, userlist,
                          <<Command("useradd", 1)>> \o c.ran)
           ELSE IF fail = "useradd_partial" THEN
               \* useradd exits non-zero after it has added the account
               LET c == Cleanup(username, created, userdel_ok)
               IN  Return(fail, "fail", c.accounts, userlist,
                          <<Command("useradd", 12)>> \o c.ran)
           ELSE IF fail = "chpasswd" THEN
               LET c == Cleanup(username, created, userdel_ok)
               IN  Return(fail, "fail", c.accounts, userlist,
                          <<Command("useradd", 0), Command("chpasswd", 1)>> \o c.ran)
           ELSE IF fail \in {"mkdir", "userlist_open"} THEN
               \* an OSError or KeyError: `except Exception`, no cleanup
               Return(fail, "fail", created, userlist,
                      dirs(IF fail = "mkdir" THEN 1 ELSE 0))
           ELSE IF ~logging_enabled THEN
               Return("none", "ok", created, listed, dirs(0))
           ELSE IF fail = "log_mkdir" THEN
               \* credentials_file.parent.mkdir raises outside the try of
               \* _log_credentials: `except Exception` of create_user
               Return(fail, "fail", created, listed, dirs(0))
           ELSE IF fail = "log_open" THEN
               \* IOError inside _log_credentials: a warning, then success
               Return(fail, "ok", created, listed, dirs(0))
           ELSE IF fail = "log_write" THEN
               /\ call' = CallRecord("create_user", username, password, fail, "ok",
                                     <<TRUE, username, pwd>>)
               /\ accounts' = created
               /\ userlist' = listed
               /\ ran' = dirs(0)
               /\ hist' = hist
               /\ cred' = CreatedEmpty(cred, create_mode)
               /\ pc' = pc
           ELSE
               /\ call' = CallRecord("create_user", username, password, fail, "pending",
                                     <<TRUE, username, pwd>>)
               /\ accounts' = created
               /\ userlist' = listed
               /\ ran' = dirs(0)
               /\ hist' = hist
               /\ cred' = AppendCredentials(cred, username, pwd, create_mode)
               /\ pc' = "log_written"
    /\ UNCHANGED <<config, pwvars, mainvars, dbgvars, race, setup, sockets>>

\* ---- change_password
\* FTPUserManager.change_password(username, new_password)
ChangePassword(username, new_password, generated, fail, create_mode) ==
    /\ pc = "idle"
    /\ NumCredentialRows(cred) < MaxRows
    /\ before' = Snapshot
    /\ LET pwd == IF new_password = "None" THEN generated ELSE new_password
           Return(failed, result, cmds) ==
               /\ call' = CallRecord("change_password", username, new_password, failed,
                                     result,
                                     IF result = "ok" THEN <<TRUE, pwd>> ELSE <<FALSE, "">>)
               /\ ran' = cmds
               /\ hist' = hist
               /\ UNCHANGED <<cred, pc>>
       IN  IF ~user_exists(username) THEN Return("user_exists", "fail", <<>>)
           ELSE IF fail = "chpasswd" THEN Return(fail, "fail", <<Command("chpasswd", 1)>>)
           ELSE IF ~logging_enabled THEN Return("none", "ok", <<Command("chpasswd", 0)>>)
           ELSE IF fail = "log_mkdir" THEN
               \* not a CalledProcessError: the OSError leaves change_password
               Return(fail, "raised", <<Command("chpasswd", 0)>>)
           ELSE IF fail = "log_open" THEN Return(fail, "ok", <<Command("chpasswd", 0)>>)
           ELSE IF fail = "log_write" THEN
               /\ call' = CallRecord("change_password", username, new_password, fail,
                                     "ok", <<TRUE, pwd>>)
               /\ ran' = <<Command("chpasswd", 0)>>
               /\ hist' = hist
               /\ cred' = CreatedEmpty(cred, create_mode)
               /\ pc' = pc
           ELSE
               /\ call' = CallRecord("change_password", username, new_password, fail,
                                     "pending", <<TRUE, pwd>>)
               /\ ran' = <<Command("chpasswd", 0)>>
               /\ hist' = hist
               /\ cred' = AppendCredentials(cred, username, pwd, create_mode)
               /\ pc' = "log_written"
    /\ UNCHANGED <<config, accounts, userlist, pwvars, mainvars, dbgvars, race, setup, sockets>>

\* an OSError of os.chmod that leaves _log_credentials: create_user returns
\* failure from its `except Exception`, change_password raises
log_chmod_uncaught(op) == IF op = "create_user" THEN "fail" ELSE "raised"

\* _log_credentials, 293-298: `except IOError` turns a failure of os.chmod
\* into a warning, and the caller goes on to return success
log_chmod_failed(op) == "ok"

\* ---- _log_credentials after the file is closed: chmod 0600 (which can
\* fail), then the caller returns
LogCredentialsChmod ==
    /\ pc = "log_written"
    /\ IF call.failed = "log_chmod"
       THEN /\ cred' = cred
            /\ call' = [call EXCEPT !.result = log_chmod_failed(call.op)]
       ELSE /\ cred' = ChmodCredentials(cred)
            /\ call' = [call EXCEPT !.result = "ok"]
    /\ pc' = "idle"
    /\ UNCHANGED <<config, accounts, userlist, hist, before, ran, pwvars, mainvars, dbgvars, race, setup, sockets>>

\* ---- delete_user
\* subprocess.run without check=True: the exit code is not looked at
userdel_raises_never(rc) == FALSE

\* delete_user, 311-315: subprocess.run(..., check=True) raises
\* CalledProcessError when userdel exits non-zero
userdel_raises(rc) == rc # 0

\* FTPUserManager.delete_user(username, remove_home=True)
DeleteUser(username, fail) ==
    /\ pc = "idle"
    /\ before' = Snapshot
    /\ LET Return(failed, result, accts, ul, cmds) ==
               /\ call' = CallRecord("delete_user", username, "None", failed, result,
                                     result = "ok")
               /\ accounts' = accts
               /\ userlist' = ul
               /\ ran' = cmds
               /\ hist' = hist
       IN  IF ~user_exists(username) THEN
               Return("user_exists", "fail", accounts, userlist, <<>>)
           ELSE
               \* userdel exits 1 and removes nothing, or exits 12 after it has
               \* removed the account (the home directory, which create_user
               \* gave to root, is not removed), or exits 0
               LET rc == IF fail = "userdel" THEN 1
                         ELSE IF fail = "userdel_partial" THEN 12 ELSE 0
                   accts == IF fail = "userdel" THEN accounts ELSE accounts \ {username}
                   cmds == <<Command("userdel -r", rc)>>
               IN  IF userdel_raises(rc) THEN
                       \* `except subprocess.CalledProcessError`: return False
                       Return(fail, "fail", accts, userlist, cmds)
                   ELSE IF fail = "userlist_open" /\ userlist.exists THEN
                       \* an OSError of open(): not caught by delete_user
                       Return(fail, "raised", accts, userlist, cmds)
                   ELSE
                       Return(IF rc = 0 THEN "none" ELSE fail, "ok", accts,
                              RemoveFromUserlist(userlist, username), cmds)
    /\ UNCHANGED <<config, cred, pc, pwvars, mainvars, dbgvars, race, setup, sockets>>

\* ---- the manager's initial states
Passwords == {"None", "custom"}
GeneratedPasswords == {"generated"}
CreateFailures ==
    {"none", "useradd", "useradd_partial", "chpasswd", "mkdir", "userlist_open",
     "log_mkdir", "log_open", "log_write", "log_chmod"}
ChangeFailures == {"none", "chpasswd", "log_mkdir", "log_open", "log_write", "log_chmod"}
DeleteFailures == {"none", "userdel", "userdel_partial", "userlist_open"}

ManagerConfigs == {EmptyDict, "logging" :> ("enabled" :> FALSE)}

\* an allow-list edited by hand: a comment, a padded line, a longer name
InitialContent ==
    <<"#", "\n", " ", "b", "o", "b", " ", "\n", "b", "o", "b", "b", "y", "\n">>

\* an allow-list edited by hand whose last line has no newline
InitialContentUnterminated ==
    <<"a", "b", "b", "o", "b", "\n", "a", "b">>

Init ==
    /\ config \in ManagerConfigs
    /\ \/ /\ accounts = {}
          /\ userlist = [path |-> allowed_users_file, exists |-> FALSE, content |-> <<>>]
          /\ hist = [origin |-> "empty"]
       \/ /\ accounts = {name_bob}
          /\ userlist = [path |-> allowed_users_file, exists |-> TRUE,
                         content |-> InitialContent]
          /\ hist = [origin |-> "edited"]
       \/ /\ ~logging_enabled
          /\ accounts = {}
          /\ userlist = [path |-> allowed_users_file, exists |-> TRUE,
                         content |-> InitialContentUnterminated]
          /\ hist = [origin |-> "unterminated"]
    /\ cred = [path |-> credentials_file, exists |-> FALSE, mode |-> "none", rows |-> <<>>]
    /\ pc = "idle"
    /\ call = CallRecord("none", <<>>, "None", "none", "none", <<>>)
    /\ before = Snapshot
    /\ ran = <<>>
    /\ PwIdle
    /\ MainIdle
    /\ DbgIdle
    /\ RaceIdle
    /\ SetupIdle
    /\ SocketsIdle

\* the failing steps a call can reach, the userdel outcomes its cleanup can
\* see, the creation modes its log write can see: one value where the call
\* does not read the input; os.chmod fails on a log that exists already, the
\* write on a log that the call creates on a system that started empty
CreateFailuresFor(username) ==
    IF ~validate_username(username)[1] \/ user_exists(username) THEN {"none"}
    ELSE IF ~logging_enabled
         THEN CreateFailures \ {"log_mkdir", "log_open", "log_write", "log_chmod"}
    ELSE IF cred.exists THEN CreateFailures \ {"log_write"}
    ELSE IF hist.origin # "empty" THEN CreateFailures \ {"log_write", "log_chmod"}
    ELSE CreateFailures \ {"log_chmod"}
ChangeFailuresFor(username) ==
    IF ~user_exists(username) THEN {"none"}
    ELSE IF ~logging_enabled
         THEN ChangeFailures \ {"log_mkdir", "log_open", "log_write", "log_chmod"}
    ELSE IF cred.exists THEN ChangeFailures \ {"log_write"}
    ELSE IF hist.origin # "empty" THEN ChangeFailures \ {"log_write", "log_chmod"}
    ELSE ChangeFailures \ {"log_chmod"}
DeleteFailuresFor(username) ==
    IF ~user_exists(username) THEN {"none"}
    ELSE IF ~userlist.exists THEN DeleteFailures \ {"userlist_open"}
    ELSE DeleteFailures
\* the password is drawn where the call gets as far as the credential log
LogFailures == {"none", "log_open", "log_write", "log_chmod"}
CreatePasswordsFor(username, fail) ==
    IF ~validate_username(username)[1] \/ user_exists(username) \/ fail \notin LogFailures
    THEN {"None"} ELSE Passwords
ChangePasswordsFor(username, fail) ==
    IF ~user_exists(username) \/ fail \notin LogFailures THEN {"None"} ELSE Passwords
UserdelOutcomesFor(fail) == IF fail \in {"useradd_partial", "chpasswd"} THEN BOOLEAN ELSE {TRUE}
CreateModesFor(fail) ==
    IF fail = "none" /\ ~cred.exists /\ logging_enabled THEN CreateModes ELSE {"0644"}

Next ==
    \/ \E username \in CreateNames, generated \in GeneratedPasswords :
          \E fail \in CreateFailuresFor(username) :
              \E password \in CreatePasswordsFor(username, fail),
                 userdel_ok \in UserdelOutcomesFor(fail),
                 create_mode \in CreateModesFor(fail) :
                 CreateUser(username, password, generated, fail, userdel_ok, create_mode)
    \/ \E username \in ManagedNames, generated \in GeneratedPasswords :
          \E fail \in ChangeFailuresFor(username) :
              \E password \in ChangePasswordsFor(username, fail),
                 create_mode \in CreateModesFor(fail) :
                 ChangePassword(username, password, generated, fail, create_mode)
    \/ LogCredentialsChmod
    \/ \E username \in ManagedNames :
          \E fail \in DeleteFailuresFor(username) : DeleteUser(username, fail)

Spec == Init /\ [][Next]_vars

InitPw ==
    /\ policy \in Policies
    /\ pw = NoPw
    /\ UserIdle
    /\ MainIdle
    /\ DbgIdle
    /\ RaceIdle
    /\ SetupIdle
    /\ SocketsIdle

NextPw == Generate

SpecPw == InitPw /\ [][NextPw]_vars

(***************************************************************************)
(* main() of the six scripts                                               *)
(***************************************************************************)

Scripts == {"ftp_users", "ftp_debug", "ftp_logs",
            "tailscale_setup", "tailscale_debug", "tailscale_logs"}
\* the scripts whose constructor calls _load_config
ConfigScripts == {"ftp_users", "ftp_debug", "tailscale_setup", "tailscale_debug"}
\* only tailscale_setup ends when check_root() is False
RootScriptsSetupOnly == {"tailscale_setup"}

\* the scripts that end with status 1 when check_root() is False
RootScripts == {"ftp_users", "tailscale_setup"}
HelpFlags == {"-h", "--help"}
Arguments == {"none", "settings.json"} \cup HelpFlags
MaxOps == 2

\* the JSON objects a configuration file can hold: every key may be absent
FtpConfigs ==
    WithKey(WithKey({EmptyDict}, "ftp_root", {"/data/ftp"}),
            "allowed_users_file", {"/etc/ftp.allow"})
LoggingConfigs ==
    WithKey(WithKey({EmptyDict}, "enabled", {FALSE}),
            "credentials_file", {"/root/creds.csv"})
PolicyConfigs == WithKey({EmptyDict}, "length", {8})
ConfigObjects ==
    WithKey(WithKey(WithKey({EmptyDict}, "ftp_config", FtpConfigs),
                    "logging", LoggingConfigs),
            "password_policy", PolicyConfigs)
ConfigFiles ==
    {[kind |-> "missing", value |-> EmptyDict],
     [kind |-> "malformed", value |-> EmptyDict]}
    \cup {[kind |-> "object", value |-> o] : o \in ConfigObjects}

\* every script's _load_config ends the process on a missing or malformed file
load_config_strict(s, file) ==
    IF file.kind = "object" THEN [status |-> "file", config |-> file.value]
    ELSE [status |-> "exit", config |-> EmptyDict]

\* _load_config: ftp_users ends the process on a missing or malformed file,
\* the other scripts return {} for both
load_config(s, file) ==
    IF file.kind = "object" THEN [status |-> "file", config |-> file.value]
    ELSE IF s = "ftp_users" THEN [status |-> "exit", config |-> EmptyDict]
    ELSE [status |-> "defaults", config |-> EmptyDict]

\* sys.exit(0 if success else 2)
ExitStatusTwo(success) == IF success THEN 0 ELSE 2

\* sys.exit(0 if success else 1); sys.exit(0), sys.exit(1) and the status
\* of an uncaught exception
ExitStatus(success) == IF success THEN 0 ELSE 1

password_policy == Get(config, "password_policy", EmptyDict)

\* the configuration lookups a script's operations make
Lookups(s) ==
    IF s = "ftp_users"
    THEN ("ftp_root" :> ftp_root) @@ ("allowed_users_file" :> allowed_users_file)
         @@ ("credentials_file" :> credentials_file)
         @@ ("logging_enabled" :> logging_enabled)
         @@ ("length" :> pg_length(password_policy))
    ELSE IF s = "ftp_debug"
    THEN ("ftp_root" :> ftp_root) @@ ("allowed_users_file" :> allowed_users_file)
    ELSE EmptyDict

ExitPositions == {"exit_help", "exit_config", "exit_root", "exit_done", "exit_exception"}

Exit(position, success) ==
    /\ mpc' = position
    /\ exitcode' = <<ExitStatus(success)>>

\* main: sys.argv[1] in ['-h', '--help'] prints the usage and sys.exit(0);
\* the log viewers have warned about a missing root before
MainHelp ==
    /\ mpc = "start"
    /\ argv1 \in HelpFlags
    /\ Exit("exit_help", TRUE)
    /\ UNCHANGED <<script, argv1, cfgfile, euid, loaded, eff, opsrun>>
    /\ UNCHANGED uservars
    /\ UNCHANGED pwvars
    /\ UNCHANGED <<dbgvars, race, setup, sockets>>

\* main: the manager, debugger, setup or viewer object is constructed;
\* the constructor of a configured script loads the configuration
MainConstruct ==
    /\ mpc = "start"
    /\ argv1 \notin HelpFlags
    /\ IF script \in ConfigScripts
       THEN LET r == load_config(script, cfgfile)
            IN  IF r.status = "exit"
                THEN /\ Exit("exit_config", FALSE)
                     /\ UNCHANGED <<config, loaded>>
                ELSE /\ config' = r.config
                     /\ loaded' = r.status
                     /\ mpc' = "constructed"
                     /\ UNCHANGED exitcode
       ELSE /\ mpc' = "constructed"
            /\ UNCHANGED <<config, loaded, exitcode>>
    /\ UNCHANGED <<script, argv1, cfgfile, euid, eff, opsrun>>
    /\ UNCHANGED <<accounts, userlist, cred, pc, call, hist, before, ran>>
    /\ UNCHANGED pwvars
    /\ UNCHANGED <<dbgvars, race, setup, sockets>>

\* check_root: ftp_users and tailscale_setup end with status 1, the log
\* viewers only warn, the debuggers do not check
MainCheckRoot ==
    /\ mpc = "constructed"
    /\ IF script \in RootScripts /\ euid # 0
       THEN Exit("exit_root", FALSE)
       ELSE mpc' = "running" /\ UNCHANGED exitcode
    /\ UNCHANGED <<script, argv1, cfgfile, euid, loaded, eff, opsrun>>
    /\ UNCHANGED uservars
    /\ UNCHANGED pwvars
    /\ UNCHANGED <<dbgvars, race, setup, sockets>>

\* one menu operation, diagnostic check or setup step; an exception no
\* handler catches ends the interpreter with status 1
MainOperation(raises) ==
    /\ mpc = "running"
    /\ opsrun < MaxOps
    /\ opsrun' = opsrun + 1
    /\ eff' = Lookups(script)
    /\ IF raises THEN Exit("exit_exception", FALSE)
       ELSE UNCHANGED <<mpc, exitcode>>
    /\ UNCHANGED <<script, argv1, cfgfile, euid, loaded>>
    /\ UNCHANGED uservars
    /\ UNCHANGED pwvars
    /\ UNCHANGED <<dbgvars, race, setup, sockets>>

\* the menu loop breaks, run_diagnostics or run() returns: main returns or
\* calls sys.exit(0 if success else 1) with success True
MainReturn ==
    /\ mpc = "running"
    /\ Exit("exit_done", TRUE)
    /\ UNCHANGED <<script, argv1, cfgfile, euid, loaded, eff, opsrun>>
    /\ UNCHANGED uservars
    /\ UNCHANGED pwvars
    /\ UNCHANGED <<dbgvars, race, setup, sockets>>

InitMain ==
    /\ script \in Scripts
    /\ argv1 \in Arguments
    /\ cfgfile \in ConfigFiles
    /\ euid \in {0, 1000}
    /\ mpc = "start"
    /\ loaded = "none"
    /\ eff = EmptyDict
    /\ opsrun = 0
    /\ exitcode = <<>>
    /\ UserIdle
    /\ PwIdle
    /\ DbgIdle
    /\ RaceIdle
    /\ SetupIdle
    /\ SocketsIdle

NextMain ==
    \/ MainHelp
    \/ MainConstruct
    \/ MainCheckRoot
    \/ \E raises \in BOOLEAN : MainOperation(raises)
    \/ MainReturn

SpecMain == InitMain /\ [][NextMain]_vars

(***************************************************************************)
(* Claims about PasswordGenerator.generate (checked under SpecPw)          *)
(***************************************************************************)

\* the four character classes: the policy keys of each and its characters
ClassNames == {"lowercase", "uppercase", "digits", "special"}
ClassEnabled(c) ==
    CASE c = "lowercase" -> IF "include_lowercase" \in DOMAIN policy
                            THEN policy["include_lowercase"] ELSE TRUE
      [] c = "uppercase" -> IF "include_uppercase" \in DOMAIN policy
                            THEN policy["include_uppercase"] ELSE TRUE
      [] c = "digits"    -> IF "include_digits" \in DOMAIN policy
                            THEN policy["include_digits"] ELSE TRUE
      [] c = "special"   -> IF "include_special" \in DOMAIN policy
                            THEN policy["include_special"] ELSE TRUE
ClassMinKey(c) ==
    CASE c = "lowercase" -> "min_lowercase"
      [] c = "uppercase" -> "min_uppercase"
      [] c = "digits"    -> "min_digits"
      [] c = "special"   -> "min_special"
ClassMinimum(c) ==
    IF ClassMinKey(c) \in DOMAIN policy THEN policy[ClassMinKey(c)] ELSE 2
ClassCharacters(c) ==
    CASE c = "lowercase" -> {"a", "l", "o"}
      [] c = "uppercase" -> {"A", "I", "O"}
      [] c = "digits"    -> {"2", "0", "1"}
      [] c = "special"   -> IF "special_chars" \in DOMAIN policy
                            THEN Chars(policy["special_chars"]) ELSE {"!"}
ConfiguredLength == IF "length" \in DOMAIN policy THEN policy["length"] ELSE 16
EnabledMinimumSum ==
    LET m(c) == IF ClassEnabled(c) THEN ClassMinimum(c) ELSE 0
    IN  m("lowercase") + m("uppercase") + m("digits") + m("special")

\* C1 (as stated): under every policy the returned password holds, for each
\* of the four character classes, at least the configured minimum number of
\* characters of that class (2 when not configured).
C1_EveryClassMinimum ==
    pw.status = "ok" =>
        \A c \in ClassNames : Count(pw.value, ClassCharacters(c)) >= ClassMinimum(c)

\* C1 (amended): the returned password holds, for each character class that
\* the policy enables (include_* true or absent), at least the configured
\* minimum number of characters of that class; a disabled class contributes
\* no character of its own, whatever its minimum.
C1_EnabledClassMinimum ==
    pw.status = "ok" =>
        \A c \in ClassNames :
            ClassEnabled(c) => Count(pw.value, ClassCharacters(c)) >= ClassMinimum(c)

\* C1 witness: a password was returned under a policy with one class
\* disabled and another enabled with a positive minimum.
C1_Witness ==
    /\ pw.status = "ok"
    /\ ~ClassEnabled("digits")
    /\ ClassEnabled("lowercase") /\ ClassMinimum("lowercase") > 0
    /\ Count(pw.value, ClassCharacters("lowercase")) >= 1

\* C2 (as stated): the returned password has exactly the configured length
\* (16 when not configured), whatever the per-class minimums are.
C2_LengthIsConfigured ==
    pw.status = "ok" => Len(pw.value) = ConfiguredLength

\* C2 (amended): the returned password has exactly the configured length
\* (16 when not configured) whenever the minimums of the enabled classes sum
\* to at most that length; when they sum to more, its length is that sum.
C2_LengthOrMinimumSum ==
    pw.status = "ok" =>
        Len(pw.value) = IF EnabledMinimumSum <= ConfiguredLength
                        THEN ConfiguredLength ELSE EnabledMinimumSum

\* C2 witness: a password of the default length 16 was returned after the
\* fill loop added characters to the required ones.
C2_Witness ==
    /\ pw.status = "ok"
    /\ "length" \notin DOMAIN policy
    /\ EnabledMinimumSum > 0
    /\ Len(pw.value) > EnabledMinimumSum

(***************************************************************************)
(* Claims about FTPUserManager (checked under Spec)                        *)
(***************************************************************************)

IsPrefix(s, t) == Len(s) <= Len(t) /\ SubSeq(t, 1, Len(s)) = s
CredentialRowsOf(rows) == SelectSeq(rows, LAMBDA r : r # HeaderRow)
Returned == pc = "idle" /\ call.result \in {"ok", "fail", "raised"}
RanCommand(cmd) == \E i \in 1..Len(ran) : ran[i].cmd = cmd

\* the username rules as the specification states them
ValidUsername(u) ==
    /\ Len(u) >= 3
    /\ Len(u) <= 32
    /\ u[1] \in Letters
    /\ \A i \in 1..Len(u) : u[i] \in Letters \cup DigitChars \cup {"-", "_"}
    /\ u \notin {name_root, name_admin, name_administrator, name_ftp, name_test}

\* C3: create_user runs useradd, and returns success, only for a username of
\* length 3 to 32 that starts with a letter, consists of letters, digits,
\* hyphen and underscore, and is not one of root, admin, administrator, ftp,
\* test.
C3_CreatedOnlyIfValid ==
    (call.op = "create_user" /\ (RanCommand("useradd") \/ call.result \in {"ok", "pending"}))
        => ValidUsername(call.username)

\* C3 witness: create_user returned success for a username of 32 characters
\* holding a digit, a hyphen and an underscore.
C3_Witness ==
    /\ Returned /\ call.op = "create_user" /\ call.result = "ok"
    /\ Len(call.username) = 32
    /\ {"1", "-", "_"} \subseteq Chars(call.username)
    /\ call.username \in accounts

\* C4: after delete_user(u) returned True the allow-list file is what it was
\* before the call with the lines of u removed: the lines of other
\* usernames are all kept, unchanged and in order, and no line of u is left.
C4_DeleteRemovesExactlyItsLines ==
    (Returned /\ call.op = "delete_user" /\ call.result = "ok") =>
        /\ userlist.exists = before.userlist.exists
        /\ userlist.content =
               JoinLines(SelectSeq(readlines(before.userlist.content),
                                   LAMBDA l : Strip(l) # call.username))
        /\ \A i \in 1..Len(readlines(userlist.content)) :
               Strip(readlines(userlist.content)[i]) # call.username

\* C4 witness: a delete_user returned True, took a line out of the allow-list
\* and left the lines of others in it.
C4_Witness ==
    /\ Returned /\ call.op = "delete_user" /\ call.result = "ok"
    /\ Len(readlines(userlist.content)) >= 2
    /\ Len(readlines(userlist.content)) < Len(readlines(before.userlist.content))

\* logging.enabled as configured, true when absent
LoggingOn ==
    IF "logging" \in DOMAIN config /\ "enabled" \in DOMAIN config["logging"]
    THEN config["logging"]["enabled"] ELSE TRUE
CredentialCallSucceeded ==
    Returned /\ call.op \in {"create_user", "change_password"} /\ call.result = "ok"
AddedOneRow ==
    LET old == CredentialRowsOf(before.cred.rows)
        new == CredentialRowsOf(cred.rows)
    IN  /\ Len(new) = Len(old) + 1
        /\ new[Len(new)][2] = call.username
        /\ new[Len(new)][3] = call.ret[Len(call.ret)]

\* C5 (as stated): the credential log only grows by appending, and every
\* create_user or change_password call that returns success has added
\* exactly one credential row, for the username and password of that call.
C5_EverySuccessAddsOneRow ==
    /\ IsPrefix(before.cred.rows, cred.rows)
    /\ CredentialCallSucceeded => AddedOneRow

\* C5 (amended): the credential log only grows by appending; a call that
\* returns success has added exactly one credential row, for the username
\* and password of that call, when logging is enabled and the log file could
\* be opened, and has added no row when logging is disabled or opening the
\* log failed with an I/O error.
C5_SuccessAddsOneRowWhenLogged ==
    /\ IsPrefix(before.cred.rows, cred.rows)
    /\ CredentialCallSucceeded =>
           IF LoggingOn /\ call.failed \notin {"log_open", "log_write"} THEN AddedOneRow
           ELSE cred.rows = before.cred.rows

\* C5 witness: a second successful credential operation has appended its row
\* behind the row of the first.
C5_Witness ==
    /\ CredentialCallSucceeded
    /\ Len(CredentialRowsOf(cred.rows)) = 2
    /\ Len(CredentialRowsOf(before.cred.rows)) = 1

\* C6: in every state in which the credential log holds a credential row its
\* mode is 0600, from the first write that creates the file on.
C6_LogWithRowsIs0600 ==
    Len(CredentialRowsOf(cred.rows)) > 0 => cred.mode = "0600"

\* C7: when create_user returns failure after its useradd succeeded, it has
\* run userdel -r for that username.
C7_FailureAfterUseraddCleansUp ==
    (Returned /\ call.op = "create_user" /\ call.result = "fail"
        /\ \E i \in 1..Len(ran) : ran[i] = Command("useradd", 0))
        => RanCommand("userdel -r")

(***************************************************************************)
(* Claims about configuration loading and exit codes (checked under        *)
(* SpecMain)                                                               *)
(***************************************************************************)

Exited == mpc \in ExitPositions
\* the process got past the help text and loaded a malformed file
LoadedMalformed ==
    /\ script \in ConfigScripts
    /\ argv1 \notin HelpFlags
    /\ cfgfile.kind = "malformed"
    /\ mpc # "start"

\* C8 (as stated): in every script that loads the configuration, a file
\* that is not well-formed JSON ends the process at once, before any check or
\* operation has run.
C8_MalformedTerminatesEveryScript ==
    LoadedMalformed => (mpc = "exit_config" /\ opsrun = 0)

\* C8 (amended): of the scripts that load the configuration only ftp_users
\* ends (with status 1, before any operation) on a file that is not
\* well-formed JSON; ftp_debug, tailscale_debug and tailscale_setup carry on
\* with an empty configuration and never end at the loading step.
C8_MalformedTerminatesOnlyFtpUsers ==
    LoadedMalformed =>
        IF script = "ftp_users"
        THEN mpc = "exit_config" /\ exitcode = <<1>> /\ opsrun = 0
        ELSE mpc # "exit_config" /\ loaded = "defaults" /\ config = EmptyDict

\* C8 witness: ftp_debug ran a check after loading a malformed file.
C8_Witness ==
    /\ LoadedMalformed
    /\ script = "ftp_debug"
    /\ opsrun > 0
    /\ eff["ftp_root"] = "/srv/ftp"

\* the value the configuration file gives to a sub-key, if it does
FileGives(top, sub) ==
    /\ top \in DOMAIN cfgfile.value
    /\ sub \in DOMAIN cfgfile.value[top]
Expected(top, sub, default) ==
    IF FileGives(top, sub) THEN cfgfile.value[top][sub] ELSE default

\* C9: with a well-formed configuration, every lookup an operation made
\* gave the file's value where the file has the key and otherwise the
\* hardcoded default: ftp_root /srv/ftp, allowed_users_file
\* /etc/vsftpd.userlist, credentials_file /root/.ftp_credentials.csv,
\* password length 16, logging enabled.
C9_AbsentKeysFallBackToDefaults ==
    (cfgfile.kind = "object" /\ opsrun > 0 /\ script \in {"ftp_users", "ftp_debug"}) =>
        /\ eff["ftp_root"] = Expected("ftp_config", "ftp_root", "/srv/ftp")
        /\ eff["allowed_users_file"] =
               Expected("ftp_config", "allowed_users_file", "/etc/vsftpd.userlist")
        /\ script = "ftp_users" =>
               /\ eff["credentials_file"] =
                      Expected("logging", "credentials_file", "/root/.ftp_credentials.csv")
               /\ eff["logging_enabled"] = Expected("logging", "enabled", TRUE)
               /\ eff["length"] = Expected("password_policy", "length", 16)

\* C9 witness: ftp_users ran an operation with a configuration that has an
\* ftp_config without ftp_root and no logging key.
C9_Witness ==
    /\ script = "ftp_users" /\ cfgfile.kind = "object" /\ opsrun > 0
    /\ "ftp_config" \in DOMAIN cfgfile.value
    /\ ~FileGives("ftp_config", "ftp_root")
    /\ "logging" \notin DOMAIN cfgfile.value
    /\ "password_policy" \notin DOMAIN cfgfile.value
    /\ mpc = "running"

\* C10: a script ends with exit code 0 or 1 and no other: 0 after the
\* help text and after normal completion, 1 for a missing or invalid
\* configuration in ftp_users and for a missing root in ftp_users and
\* tailscale_setup; a running script has no exit code.
C10_ExitCodeIsZeroOrOne ==
    /\ Exited <=> exitcode # <<>>
    /\ Exited => exitcode \in {<<0>>, <<1>>}
    /\ mpc \in {"exit_help", "exit_done"} => exitcode = <<0>>
    /\ mpc \in {"exit_config", "exit_root"} => exitcode = <<1>>
    /\ (Exited /\ argv1 \in HelpFlags) => mpc = "exit_help"
    /\ (Exited /\ argv1 \notin HelpFlags /\ script = "ftp_users" /\ cfgfile.kind # "object")
           => mpc = "exit_config"
    /\ (Exited /\ argv1 \notin HelpFlags /\ script = "tailscale_setup" /\ euid # 0)
           => mpc = "exit_root"
    /\ (Exited /\ argv1 \notin HelpFlags /\ script = "ftp_users" /\ euid # 0)
           => mpc \in {"exit_config", "exit_root"}

\* C10 witness: tailscale_setup, not run as root, has ended with status 1.
C10_Witness ==
    /\ script = "tailscale_setup" /\ euid # 0
    /\ mpc = "exit_root"
    /\ exitcode = <<1>>

(***************************************************************************)
(* FTPDebugger and TailscaleDebugger: run_diagnostics                      *)
(*                                                                         *)
(* The output of a command is the set of the fragments it contains that a  *)
(* check looks for: 'x in stdout' is membership and the empty string is    *)
(* the empty set.  Files the checks read are readable.                     *)
(***************************************************************************)

\* what json.loads makes of an output: a JSONDecodeError ("invalid"), or a
\* value with the members of an object or the items of an array
JInvalid == [type |-> "invalid", members |-> EmptyDict]
JNull == [type |-> "null", members |-> EmptyDict]
JTrue == [type |-> "true", members |-> EmptyDict]
JFalse == [type |-> "false", members |-> EmptyDict]
JString == [type |-> "string", members |-> EmptyDict]
JArray(items) == [type |-> "array", members |-> items]
JObject(members) == [type |-> "object", members |-> members]

\* what subprocess.run does with a command
Completed(code, stdout) == [kind |-> "exit", code |-> code, stdout |-> stdout, json |-> JInvalid]
CompletedJson(code, json) == [kind |-> "exit", code |-> code, stdout |-> {"{"}, json |-> json]
TimedOut == [kind |-> "timeout", code |-> 0, stdout |-> {}, json |-> JInvalid]
NotStarted == [kind |-> "oserror", code |-> 0, stdout |-> {}, json |-> JInvalid]

\* _run_command: (returncode, stdout, stderr); TimeoutExpired and any other
\* exception give (-1, "", message)
run_command(o) ==
    IF o.kind = "exit"
    THEN [code |-> o.code, stdout |-> o.stdout, json |-> o.json, raised |-> FALSE]
    ELSE [code |-> -1, stdout |-> {}, json |-> JInvalid, raised |-> FALSE]

\* one printed line with a mark ("pass", "warn", "fail") and the list the
\* same branch appends to ("none" when it appends to no list)
Outcome(mark, list, msg) == [mark |-> mark, list |-> list, msg |-> msg]
\* what a check procedure did: its outcomes in order, and whether an
\* exception left it
Result(outcomes, raised) == [outcomes |-> outcomes, raised |-> raised]
Marks == {"pass", "warn", "fail"}

\* ---- FTPDebugger
ServiceResults == {Completed(0, {"active"}), Completed(3, {"inactive"}), TimedOut}
\* what 'systemctl is-active' gives for vsftpd, ssh and fail2ban
ServiceFindings ==
    {<<Completed(0, {"active"}), Completed(0, {"active"}), Completed(0, {"active"})>>,
     <<Completed(0, {"active"}), Completed(0, {"active"}), Completed(3, {"inactive"})>>,
     <<Completed(3, {"inactive"}), Completed(0, {"active"}), TimedOut>>,
     <<TimedOut, TimedOut, TimedOut>>}

\* check_services, 70-85: one service of the loop
check_service_of(service, description, o) ==
    LET r == run_command(o)
    IN  IF r.raised THEN Result(<<>>, TRUE)
        ELSE IF r.stdout = {"active"}
        THEN Result(<<Outcome("pass", "passed_checks", <<description, "is running">>)>>, FALSE)
        ELSE IF service = "fail2ban"
        THEN Result(<<Outcome("warn", "warnings", <<description, "is not running">>)>>, FALSE)
        ELSE Result(<<Outcome("fail", "issues_found", <<description, "is not running">>)>>, FALSE)

\* the results of statements run one after the other: an exception ends them
Then(a, b) == IF a.raised THEN a ELSE Result(a.outcomes \o b.outcomes, b.raised)

check_services(vsftpd, ssh, fail2ban) ==
    Then(check_service_of("vsftpd", "vsftpd (FTP Server)", vsftpd),
         Then(check_service_of("ssh", "SSH/SFTP Server", ssh),
              check_service_of("fail2ban", "fail2ban (optional)", fail2ban)))

PortOutputs == {{":21", ":22", ":20"}, {":21", ":22"}, {}}
NetstatResults == {Completed(0, o) : o \in PortOutputs} \cup {Completed(127, {}), TimedOut}

\* f':{port}'
PortFragment(port) == IF port = "21" THEN ":21" ELSE IF port = "22" THEN ":22" ELSE ":20"

\* check_ports, 97-111: one port of the loop
check_port_of(port, stdout) ==
    IF PortFragment(port) \in stdout
    THEN Result(<<Outcome("pass", "passed_checks", <<"Port", port, "is listening">>)>>, FALSE)
    ELSE IF port = "20"
    THEN Result(<<Outcome("warn", "warnings", <<"Port", port, "not listening">>)>>, FALSE)
    ELSE Result(<<Outcome("fail", "issues_found", <<"Port", port, "is not listening">>)>>, FALSE)

check_ports(netstat, ss) ==
    LET first == run_command(netstat)
        r == IF first.raised THEN first
             ELSE IF first.code # 0 THEN run_command(ss) ELSE first
    IN  IF r.raised THEN Result(<<>>, TRUE)
        ELSE Then(check_port_of("21", r.stdout),
                  Then(check_port_of("22", r.stdout), check_port_of("20", r.stdout)))

WhichResults == {Completed(0, {"/usr/sbin/ufw"}), Completed(1, {}), TimedOut}
UfwStatusResults ==
    {Completed(0, {"inactive"}), Completed(0, {"21", "22", "40000:40100"}), NotStarted}

\* check_firewall, 136-145: one port of the loop
firewall_port_of(port, stdout) ==
    IF port \in stdout
    THEN Result(<<Outcome("pass", "passed_checks", <<"Firewall allows port", port>>)>>, FALSE)
    ELSE Result(<<Outcome("fail", "issues_found", <<"Firewall does not allow port", port>>)>>, FALSE)

\* FTPDebugger.check_firewall
ftp_check_firewall(which, status) ==
    LET w == run_command(which)
        st == run_command(status)
    IN  IF w.raised THEN Result(<<>>, TRUE)
        ELSE IF w.code # 0
        THEN Result(<<Outcome("warn", "warnings", <<"UFW firewall not installed">>)>>, FALSE)
        ELSE IF st.raised THEN Result(<<>>, TRUE)
        ELSE IF "inactive" \in st.stdout
        THEN Result(<<Outcome("warn", "warnings", <<"UFW firewall is inactive">>)>>, FALSE)
        ELSE Then(Result(<<Outcome("pass", "none", <<"UFW is active">>)>>, FALSE),
                  Then(firewall_port_of("21", st.stdout),
                       Then(firewall_port_of("22", st.stdout),
                            firewall_port_of("40000:40100", st.stdout))))

critical_settings ==
    <<"listen=YES", "local_enable=YES", "write_enable=YES", "pasv_enable=YES",
      "userlist_enable=YES", "chroot_local_user=NO">>
ConfFiles ==
    {[exists |-> FALSE, content |-> {}],
     [exists |-> TRUE, content |-> {critical_settings[i] : i \in 1..Len(critical_settings)}],
     [exists |-> TRUE, content |-> {"listen=YES", "listen_ipv6=YES", "chroot_local_user=YES"}]}

\* check_configuration, 173-179: the settings from the i-th on
RECURSIVE settings_from(_, _)
settings_from(i, content) ==
    IF i > Len(critical_settings) THEN <<>>
    ELSE <<IF critical_settings[i] \in content
           THEN Outcome("pass", "passed_checks", <<"Config has", critical_settings[i]>>)
           ELSE Outcome("fail", "issues_found", <<"Config missing", critical_settings[i]>>)>>
         \o settings_from(i + 1, content)

check_configuration(conf) ==
    IF ~conf.exists
    THEN Result(<<Outcome("fail", "issues_found", <<"vsftpd.conf file missing">>)>>, FALSE)
    ELSE Result(
        <<Outcome("pass", "none", <<"Configuration file exists">>)>>
        \o settings_from(1, conf.content)
        \o (IF "listen_ipv6=YES" \in conf.content /\ "listen=YES" \in conf.content
            THEN <<Outcome("fail", "issues_found", <<"IPv4 and IPv6 both enabled">>)>>
            ELSE <<>>)
        \o (IF "chroot_local_user=YES" \in conf.content
            THEN <<Outcome("warn", "warnings", <<"Chroot enabled (should be disabled)">>)>>
            ELSE <<>>),
        FALSE)

\* what check_user_list finds for a listed user: the result of 'id', whether
\* the user's directory exists, and what pwd.getpwnam gives
UserFindings ==
    {[id |-> Completed(0, {"uid"}), dir |-> TRUE, pwd |-> "owner"],
     [id |-> Completed(0, {"uid"}), dir |-> TRUE, pwd |-> "other"],
     [id |-> Completed(0, {"uid"}), dir |-> TRUE, pwd |-> "KeyError"],
     [id |-> Completed(0, {"uid"}), dir |-> FALSE, pwd |-> "owner"],
     [id |-> TimedOut, dir |-> TRUE, pwd |-> "owner"]}
UserListFiles ==
    {[exists |-> FALSE, users |-> <<>>], [exists |-> TRUE, users |-> <<"bob">>]}

\* check_user_list, 211-247: one user of the loop
user_list_user_of(user, found) ==
    LET r == run_command(found.id)
    IN  IF r.raised THEN Result(<<>>, TRUE)
        ELSE IF r.code # 0
        THEN Result(<<Outcome("fail", "issues_found", <<"User", user, "in list but not in system">>)>>, FALSE)
        ELSE IF ~found.dir
        THEN Result(<<Outcome("pass", "none", <<"User exists">>),
                      Outcome("fail", "issues_found", <<"User", user, "directory missing">>)>>, FALSE)
        ELSE Result(
            <<Outcome("pass", "none", <<"User exists">>),
              Outcome("pass", "none", <<"Directory">>),
              IF found.pwd = "owner" THEN Outcome("pass", "none", <<"Owned by user">>)
              ELSE IF found.pwd = "other"
              THEN Outcome("warn", "warnings", <<"User", user, "directory ownership mismatch">>)
              ELSE Outcome("warn", "none", <<"Could not verify ownership">>)>>,
            FALSE)

RECURSIVE user_list_users_from(_, _, _)
user_list_users_from(i, users, found) ==
    IF i > Len(users) THEN Result(<<>>, FALSE)
    ELSE Then(user_list_user_of(users[i], found), user_list_users_from(i + 1, users, found))

check_user_list(file, found) ==
    IF ~file.exists
    THEN Result(<<Outcome("warn", "warnings", <<"User list file does not exist">>)>>, FALSE)
    ELSE IF file.users = <<>>
    THEN Result(<<Outcome("pass", "none", <<"User list file exists">>),
                  Outcome("warn", "warnings", <<"User list is empty">>)>>, FALSE)
    ELSE Then(Result(<<Outcome("pass", "none", <<"User list file exists">>)>>, FALSE),
              user_list_users_from(1, file.users, found))

FtpRoots == {[exists |-> FALSE, uid |-> 0], [exists |-> TRUE, uid |-> 0],
             [exists |-> TRUE, uid |-> 1000]}

check_permissions(root) ==
    IF ~root.exists
    THEN Result(<<Outcome("fail", "issues_found", <<"FTP root directory missing">>)>>, FALSE)
    ELSE Result(<<Outcome("pass", "none", <<"FTP root exists">>),
                  IF root.uid = 0
                  THEN Outcome("pass", "passed_checks", <<"FTP root owned by root">>)
                  ELSE Outcome("warn", "warnings", <<"FTP root not owned by root">>)>>, FALSE)

HostnameResults == {Completed(0, {"10.0.0.1"})}
NcResults == {Completed(0, {}), Completed(1, {"succeeded"}), TimedOut}

\* check_network; what nc writes to stderr is taken with its stdout
check_network(hostname, nc) ==
    LET h == run_command(hostname)
        n == run_command(nc)
    IN  IF h.raised THEN Result(<<>>, TRUE)
        ELSE Then(Result(IF h.code = 0 THEN <<Outcome("pass", "none", <<"Server IP addresses">>)>>
                         ELSE <<>>, FALSE),
                  IF n.raised THEN Result(<<>>, TRUE)
                  ELSE IF n.code = 0 \/ "succeeded" \in n.stdout
                  THEN Result(<<Outcome("pass", "passed_checks", <<"Port 21 reachable on localhost">>)>>, FALSE)
                  ELSE Result(<<Outcome("fail", "issues_found", <<"Port 21 not reachable">>)>>, FALSE))

\* a log file of check_logs: missing, or what grep gives for it
LogFindings ==
    {[exists |-> FALSE, grep |-> NotStarted],
     [exists |-> TRUE, grep |-> Completed(0, {"ftp", "error"})],
     [exists |-> TRUE, grep |-> Completed(0, {"ftp"})],
     [exists |-> TRUE, grep |-> TimedOut]}
\* what check_logs finds for vsftpd.log, syslog and auth.log
LogFileFindings ==
    {f \in [1..3 -> LogFindings] : f[1] = f[2] /\ (f[2] = f[3] \/ ~f[3].exists)}
ErrorWords == {"error", "fail", "denied", "refused"}

\* FTPDebugger.check_logs, 305-331: one log file of the loop
ftp_log_of(found) ==
    LET r == run_command(found.grep)
    IN  IF ~found.exists
        THEN Result(<<Outcome("warn", "none", <<"Log file not found">>)>>, FALSE)
        ELSE IF r.raised THEN Result(<<>>, TRUE)
        ELSE IF r.stdout = {} THEN Result(<<>>, FALSE)
        ELSE IF r.stdout \cap ErrorWords # {}
        THEN Result(<<Outcome("warn", "none", <<"Found error/warning entries">>)>>, FALSE)
        ELSE Result(<<Outcome("pass", "none", <<"No obvious errors in recent logs">>)>>, FALSE)

ftp_check_logs(vsftpd_log, syslog, auth_log) ==
    Then(ftp_log_of(vsftpd_log), Then(ftp_log_of(syslog), ftp_log_of(auth_log)))

\* test_ftp_connection prints the manual test and no outcome
test_ftp_connection == Result(<<>>, FALSE)

\* ---- TailscaleDebugger
\* 'key in value': a TypeError for null, a boolean or a number
InRaises(v) == v.type \in {"null", "true", "false"}
In(key, v) == v.type = "object" /\ key \in DOMAIN v.members
\* the truth value of a JSON value
Truthy(v) ==
    \/ v.type \in {"true", "string"}
    \/ v.type = "object" /\ DOMAIN v.members # {}
    \/ v.type = "array" /\ v.members # <<>>

TsWhichResults == {Completed(0, {"/usr/bin/tailscale"}), Completed(1, {}), NotStarted}

\* check_installation; the version is printed without a mark
check_installation(which) ==
    LET r == run_command(which)
    IN  IF r.raised THEN Result(<<>>, TRUE)
        ELSE IF r.code = 0
        THEN Result(<<Outcome("pass", "passed_checks", <<"Tailscale is installed">>)>>, FALSE)
        ELSE Result(<<Outcome("fail", "issues_found", <<"Tailscale is not installed">>)>>, FALSE)

IsActiveResults == {Completed(0, {"active"}), Completed(3, {"inactive"}), TimedOut}
IsEnabledResults == {Completed(0, {"enabled"}), Completed(1, {"disabled"}), NotStarted}

check_service(is_active, is_enabled) ==
    LET a == run_command(is_active)
        e == run_command(is_enabled)
    IN  IF a.raised THEN Result(<<>>, TRUE)
        ELSE Then(Result(<<IF a.stdout = {"active"}
                           THEN Outcome("pass", "passed_checks", <<"Tailscaled service is running">>)
                           ELSE Outcome("fail", "issues_found", <<"Tailscaled service is not running">>)>>,
                         FALSE),
                  IF e.raised THEN Result(<<>>, TRUE)
                  ELSE IF e.stdout = {"enabled"}
                  THEN Result(<<Outcome("pass", "none", <<"Tailscaled service: ENABLED at boot">>)>>, FALSE)
                  ELSE Result(<<Outcome("warn", "warnings", <<"Tailscaled service not enabled at boot">>)>>, FALSE))

StatusResults ==
    {Completed(0, {"self", "peer"}), Completed(0, {"self"}), Completed(0, {"logged out"}),
     Completed(1, {}), TimedOut}

check_authentication(status) ==
    LET r == run_command(status)
    IN  IF r.raised THEN Result(<<>>, TRUE)
        ELSE IF r.code # 0
        THEN Result(<<Outcome("fail", "issues_found", <<"Cannot check authentication status">>)>>, FALSE)
        ELSE IF "not logged in" \in r.stdout \/ "logged out" \in r.stdout
        THEN Result(<<Outcome("fail", "issues_found", <<"Tailscale is not authenticated">>)>>, FALSE)
        ELSE Result(<<Outcome("pass", "passed_checks", <<"Tailscale is authenticated">>)>>, FALSE)

IpResults == {Completed(0, {"100.64.0.1"}), Completed(0, {}), TimedOut}

check_ip_addresses(ip4, ip6) ==
    LET a == run_command(ip4)
        b == run_command(ip6)
    IN  IF a.raised THEN Result(<<>>, TRUE)
        ELSE Then(Result(<<IF a.code = 0 /\ a.stdout # {}
                           THEN Outcome("pass", "passed_checks", <<"Has IPv4 address">>)
                           ELSE Outcome("fail", "issues_found", <<"No IPv4 address">>)>>, FALSE),
                  IF b.raised THEN Result(<<>>, TRUE)
                  ELSE Result(<<IF b.code = 0 /\ b.stdout # {}
                                THEN Outcome("pass", "none", <<"IPv6 address">>)
                                ELSE Outcome("warn", "none", <<"No IPv6 address assigned">>)>>, FALSE))

\* check_connectivity: an output with a "peer" fragment has more than one line
check_connectivity(status) ==
    LET r == run_command(status)
    IN  IF r.raised THEN Result(<<>>, TRUE)
        ELSE IF r.code # 0
        THEN Result(<<Outcome("fail", "none", <<"Could not get Tailscale status">>)>>, FALSE)
        ELSE IF "peer" \notin r.stdout
        THEN Result(<<Outcome("warn", "warnings", <<"No Tailscale peers connected">>)>>, FALSE)
        ELSE Result(<<Outcome("pass", "passed_checks", <<"Connected to peers">>)>>, FALSE)

\* the documents 'tailscale status --json' prints
DocFull ==
    JObject(("Self" :> JObject("AllowedIPs" :> JArray(<<JString>>)))
            @@ ("ExitNodeStatus" :>
                    JObject(("Online" :> JTrue) @@ ("TailscaleIPs" :> JArray(<<JString>>))))
            @@ ("MagicDNSSuffix" :> JString))
DocExitOffline == JObject("ExitNodeStatus" :> JObject("Online" :> JFalse))
DocExitNoIps ==
    JObject("ExitNodeStatus" :> JObject(("Online" :> JTrue) @@ ("TailscaleIPs" :> JArray(<<>>))))
StatusDocs == {DocFull, DocExitOffline, DocExitNoIps, JObject(EmptyDict), JNull}
StatusJsonResults ==
    {CompletedJson(0, d) : d \in StatusDocs}
    \cup {Completed(0, {"not json"}), Completed(1, {}), TimedOut}

tailscale_config == Get(config, "tailscale_config", EmptyDict)

\* ', '.join(value): a TypeError unless the value is iterable and its items
\* are strings
JoinRaises(v) ==
    \/ v.type \in {"null", "true", "false"}
    \/ v.type = "array" /\ \E i \in 1..Len(v.members) : v.members[i].type # "string"

\* check_routes, 192-204: only json.JSONDecodeError is caught
check_routes(status) ==
    LET r == run_command(status)
        doc == r.json
        self == doc.members["Self"]
        allowed == self.members["AllowedIPs"]
    IN  IF r.raised THEN Result(<<>>, TRUE)
        ELSE IF r.code # 0 \/ doc.type = "invalid" THEN Result(<<>>, FALSE)
        ELSE IF InRaises(doc) THEN Result(<<>>, TRUE)
        ELSE IF ~In("Self", doc) THEN Result(<<>>, FALSE)
        ELSE IF InRaises(self) THEN Result(<<>>, TRUE)
        ELSE IF ~In("AllowedIPs", self) THEN Result(<<>>, FALSE)
        ELSE Result(<<>>, Truthy(allowed) /\ JoinRaises(allowed))

SysctlResults == {Completed(0, {"= 1"}), Completed(0, {"= 0"}), TimedOut}

\* check_exit_node, 216-227: the advertising part
exit_node_advertising(sysctl) ==
    LET r == run_command(sysctl)
    IN  IF ~Get(tailscale_config, "advertise_exit_node", FALSE) THEN Result(<<>>, FALSE)
        ELSE IF r.raised
        THEN Result(<<Outcome("pass", "none", <<"Advertising as exit node">>)>>, TRUE)
        ELSE Result(<<Outcome("pass", "none", <<"Advertising as exit node">>),
                      IF "= 1" \in r.stdout
                      THEN Outcome("pass", "none", <<"IP forwarding enabled">>)
                      ELSE Outcome("fail", "issues_found",
                                   <<"IP forwarding disabled (required for exit node)">>)>>, FALSE)

\* exit_status.get('TailscaleIPs', ['Unknown'])[0]
FirstIpRaises(exit_status) ==
    /\ "TailscaleIPs" \in DOMAIN exit_status.members
    /\ LET ips == exit_status.members["TailscaleIPs"]
       IN  ~(ips.type = "array" /\ ips.members # <<>>)

\* check_exit_node, 230-244: the exit node in use
exit_node_in_use(status) ==
    LET r == run_command(status)
        doc == r.json
        exit_status == doc.members["ExitNodeStatus"]
    IN  IF r.raised THEN Result(<<>>, TRUE)
        ELSE IF r.code # 0 \/ doc.type = "invalid" THEN Result(<<>>, FALSE)
        ELSE IF InRaises(doc) THEN Result(<<>>, TRUE)
        ELSE IF ~In("ExitNodeStatus", doc) THEN Result(<<>>, FALSE)
        ELSE IF ~Truthy(exit_status) THEN Result(<<>>, FALSE)
        ELSE IF exit_status.type # "object" THEN Result(<<>>, TRUE)
        ELSE IF "Online" \in DOMAIN exit_status.members /\ Truthy(exit_status.members["Online"])
        THEN IF FirstIpRaises(exit_status) THEN Result(<<>>, TRUE)
             ELSE Result(<<Outcome("pass", "none", <<"Using exit node">>)>>, FALSE)
        ELSE Result(<<Outcome("warn", "none", <<"Exit node offline">>)>>, FALSE)

check_exit_node(sysctl, status) == Then(exit_node_advertising(sysctl), exit_node_in_use(status))

ResolvConfs == {"missing", "tailscale", "other"}
\* what check_dns finds: the status document and /etc/resolv.conf
DnsFindings ==
    {<<CompletedJson(0, DocFull), "tailscale">>, <<CompletedJson(0, DocFull), "other">>,
     <<CompletedJson(0, JObject(EmptyDict)), "missing">>, <<CompletedJson(0, JNull), "other">>,
     <<Completed(0, {"not json"}), "other">>, <<TimedOut, "tailscale">>}

check_dns(status, resolv) ==
    LET r == run_command(status)
        doc == r.json
    IN  Then(IF r.raised THEN Result(<<>>, TRUE)
             ELSE IF r.code # 0 \/ doc.type = "invalid" THEN Result(<<>>, FALSE)
             ELSE IF InRaises(doc) THEN Result(<<>>, TRUE)
             ELSE IF In("MagicDNSSuffix", doc)
             THEN Result(<<Outcome("pass", "passed_checks", <<"MagicDNS enabled">>)>>, FALSE)
             ELSE Result(<<Outcome("warn", "none", <<"MagicDNS not configured">>)>>, FALSE),
             IF resolv = "missing" THEN Result(<<>>, FALSE)
             ELSE IF resolv = "tailscale"
             THEN Result(<<Outcome("pass", "none", <<"Tailscale DNS configured">>)>>, FALSE)
             ELSE Result(<<Outcome("warn", "none", <<"Tailscale DNS not in /etc/resolv.conf">>)>>, FALSE))

check_ssh ==
    IF Get(tailscale_config, "ssh_enabled", FALSE)
    THEN Result(<<Outcome("pass", "none", <<"Tailscale SSH enabled in config">>)>>, FALSE)
    ELSE Result(<<Outcome("warn", "none", <<"Tailscale SSH not enabled">>)>>, FALSE)

TsUfwStatusResults ==
    {Completed(0, {"inactive"}), Completed(0, {"41641"}), Completed(0, {"22"}), TimedOut}

\* TailscaleDebugger.check_firewall
ts_check_firewall(which, status) ==
    LET w == run_command(which)
        st == run_command(status)
    IN  IF w.raised THEN Result(<<>>, TRUE)
        ELSE IF w.code # 0
        THEN Result(<<Outcome("warn", "none", <<"UFW not installed">>)>>, FALSE)
        ELSE IF st.raised THEN Result(<<>>, TRUE)
        ELSE IF "inactive" \in st.stdout
        THEN Result(<<Outcome("pass", "none", <<"UFW is inactive">>)>>, FALSE)
        ELSE IF "tailscale" \in st.stdout \/ "41641" \in st.stdout
        THEN Result(<<Outcome("pass", "none", <<"Tailscale port allowed">>)>>, FALSE)
        ELSE Result(<<Outcome("warn", "none", <<"Tailscale port not explicitly allowed">>)>>, FALSE)

CurlResults == {Completed(0, {"200"}), Completed(28, {"000"}), NotStarted}

\* test_connectivity: socket.gethostbyname resolves or raises socket.gaierror
test_connectivity(resolves, curl) ==
    LET r == run_command(curl)
    IN  Then(Result(<<IF resolves
                      THEN Outcome("pass", "none", <<"Can resolve controlplane.tailscale.com">>)
                      ELSE Outcome("fail", "issues_found",
                                   <<"Cannot resolve Tailscale coordination server">>)>>, FALSE),
             IF r.raised THEN Result(<<>>, TRUE)
             ELSE IF r.code = 0 /\ "200" \in r.stdout
             THEN Result(<<Outcome("pass", "none", <<"Can reach controlplane.tailscale.com">>)>>, FALSE)
             ELSE Result(<<Outcome("fail", "issues_found",
                                   <<"Cannot reach Tailscale coordination server">>)>>, FALSE))

JournalResults == {Completed(0, {"started"}), Completed(0, {"error"}), Completed(1, {}), TimedOut}
JournalErrorWords == {"error", "fail", "warning"}

\* TailscaleDebugger.check_logs
ts_check_logs(journal) ==
    LET r == run_command(journal)
    IN  IF r.raised THEN Result(<<>>, TRUE)
        ELSE IF r.code # 0
        THEN Result(<<Outcome("warn", "none", <<"Could not read logs">>)>>, FALSE)
        ELSE IF r.stdout \cap JournalErrorWords # {}
        THEN Result(<<Outcome("warn", "none", <<"Found error/warning entries">>)>>, FALSE)
        ELSE Result(<<Outcome("pass", "none", <<"No obvious errors in recent logs">>)>>, FALSE)

\* ---- run_diagnostics
FtpChecks ==
    <<"check_services", "check_ports", "check_firewall", "check_configuration",
      "check_user_list", "check_permissions", "check_network", "check_logs">>
TsChecks ==
    <<"check_installation", "check_service", "check_authentication", "check_ip_addresses",
      "check_connectivity", "check_routes", "check_exit_node", "check_dns", "check_ssh",
      "check_firewall", "test_connectivity", "check_logs">>
\* the procedures run_diagnostics calls, in the order of its statements
Checklist ==
    IF dbg = "ftp"
    THEN FtpChecks \o (IF dbg_username # "" THEN <<"test_ftp_connection">> ELSE <<>>)
    ELSE TsChecks

\* run_diagnostics calls the same procedure again
AfterRetry(name) == name

\* the statement of run_diagnostics after the call of a procedure
After(name) ==
    LET i == CHOOSE k \in 1..Len(Checklist) : Checklist[k] = name
    IN  IF i = Len(Checklist) THEN "summary" ELSE Checklist[i + 1]

\* every message goes to issues_found
AppendedAsIssue(outcomes, list) ==
    LET sel == SelectSeq(outcomes, LAMBDA o : o.list # "none")
    IN  IF list = "issues_found" THEN [i \in 1..Len(sel) |-> sel[i].msg] ELSE <<>>
\* the messages a check appends to one of the lists
Appended(outcomes, list) ==
    LET sel == SelectSeq(outcomes, LAMBDA o : o.list = list)
    IN  [i \in 1..Len(sel) |-> sel[i].msg]
NumMarked(outcomes, mark) == Len(SelectSeq(outcomes, LAMBDA o : o.mark = mark))

\* one statement self.check_...() of run_diagnostics
RunCheck(debugger, name, res) ==
    /\ dbg = debugger
    /\ dpc = name
    /\ invoked' = Append(invoked, name)
    /\ passed_checks' = passed_checks \o Appended(res.outcomes, "passed_checks")
    /\ warnings' = warnings \o Appended(res.outcomes, "warnings")
    /\ issues_found' = issues_found \o Appended(res.outcomes, "issues_found")
    /\ printed' = [m \in Marks |-> printed[m] + NumMarked(res.outcomes, m)]
    /\ dpc' = IF res.raised THEN "raised" ELSE After(name)
    /\ UNCHANGED <<dbg, dbg_username, summary>>
    /\ UNCHANGED <<uservars, pwvars, mainvars, race, setup, sockets>>

FtpCheckServices ==
    \E found \in ServiceFindings :
        RunCheck("ftp", "check_services", check_services(found[1], found[2], found[3]))
FtpCheckPorts ==
    \E netstat \in NetstatResults, ss \in NetstatResults :
        RunCheck("ftp", "check_ports", check_ports(netstat, ss))
FtpCheckFirewall ==
    \E which \in WhichResults, status \in UfwStatusResults :
        RunCheck("ftp", "check_firewall", ftp_check_firewall(which, status))
FtpCheckConfiguration ==
    \E conf \in ConfFiles : RunCheck("ftp", "check_configuration", check_configuration(conf))
FtpCheckUserList ==
    \E file \in UserListFiles, found \in UserFindings :
        RunCheck("ftp", "check_user_list", check_user_list(file, found))
FtpCheckPermissions ==
    \E root \in FtpRoots : RunCheck("ftp", "check_permissions", check_permissions(root))
FtpCheckNetwork ==
    \E hostname \in HostnameResults, nc \in NcResults :
        RunCheck("ftp", "check_network", check_network(hostname, nc))
FtpCheckLogs ==
    \E found \in LogFileFindings :
        RunCheck("ftp", "check_logs", ftp_check_logs(found[1], found[2], found[3]))
FtpTestConnection == RunCheck("ftp", "test_ftp_connection", test_ftp_connection)

TsCheckInstallation ==
    \E which \in TsWhichResults :
        RunCheck("tailscale", "check_installation", check_installation(which))
TsCheckService ==
    \E is_active \in IsActiveResults, is_enabled \in IsEnabledResults :
        RunCheck("tailscale", "check_service", check_service(is_active, is_enabled))
TsCheckAuthentication ==
    \E status \in StatusResults :
        RunCheck("tailscale", "check_authentication", check_authentication(status))
TsCheckIpAddresses ==
    \E ip4 \in IpResults, ip6 \in IpResults :
        RunCheck("tailscale", "check_ip_addresses", check_ip_addresses(ip4, ip6))
TsCheckConnectivity ==
    \E status \in StatusResults :
        RunCheck("tailscale", "check_connectivity", check_connectivity(status))
TsCheckRoutes ==
    \E status \in StatusJsonResults :
        RunCheck("tailscale", "check_routes", check_routes(status))
TsCheckExitNode ==
    \E sysctl \in SysctlResults, status \in StatusJsonResults :
        RunCheck("tailscale", "check_exit_node", check_exit_node(sysctl, status))
TsCheckDns ==
    \E found \in DnsFindings :
        RunCheck("tailscale", "check_dns", check_dns(found[1], found[2]))
TsCheckSsh == RunCheck("tailscale", "check_ssh", check_ssh)
TsCheckFirewall ==
    \E which \in WhichResults, status \in TsUfwStatusResults :
        RunCheck("tailscale", "check_firewall", ts_check_firewall(which, status))
TsTestConnectivity ==
    \E resolves \in BOOLEAN, curl \in CurlResults :
        /\ (resolves \/ curl.kind # "exit" \/ curl.code # 0)
        /\ RunCheck("tailscale", "test_connectivity", test_connectivity(resolves, curl))
TsCheckLogs ==
    \E journal \in JournalResults :
        RunCheck("tailscale", "check_logs", ts_check_logs(journal))

\* run_diagnostics: total_checks of the summary
total_checks == Len(passed_checks) + Len(warnings) + Len(issues_found)

\* ---- the text of the messages
\* the f-string of a message: its parts with one space between them
RECURSIVE Text(_)
Text(msg) ==
    IF msg = <<>> THEN ""
    ELSE IF Len(msg) = 1 THEN msg[1] ELSE msg[1] \o " " \o Text(Tail(msg))

ascii_upper == "ABCDEFGHIJKLMNOPQRSTUVWXYZ"
ascii_lower == "abcdefghijklmnopqrstuvwxyz"
LowerMap ==
    [c \in {SubSeq(ascii_upper, i, i) : i \in 1..Len(ascii_upper)} |->
        LET i == CHOOSE k \in 1..Len(ascii_upper) : SubSeq(ascii_upper, k, k) = c
        IN  SubSeq(ascii_lower, i, i)]
LowerChar(c) == IF c \in DOMAIN LowerMap THEN LowerMap[c] ELSE c
\* str.lower()
RECURSIVE lower(_)
lower(s) == IF Len(s) = 0 THEN "" ELSE LowerChar(SubSeq(s, 1, 1)) \o lower(SubSeq(s, 2, Len(s)))
\* frag in s
StrIn(frag, s) == \E i \in 1..(Len(s) - Len(frag) + 1) : SubSeq(s, i, i + Len(frag) - 1) = frag
\* str.split(): the words between the blanks
RECURSIVE split(_)
split(s) ==
    IF Len(s) = 0 THEN <<>>
    ELSE IF SubSeq(s, 1, 1) = " " THEN split(SubSeq(s, 2, Len(s)))
    ELSE LET blanks == {i \in 1..Len(s) : SubSeq(s, i, i) = " "}
             n == IF blanks = {} THEN Len(s) + 1
                  ELSE CHOOSE i \in blanks : \A j \in blanks : i <= j
         IN  <<SubSeq(s, 1, n - 1)>> \o split(SubSeq(s, n, Len(s)))

\* FTPDebugger.generate_fixes, 385-408: the lines printed below one issue
ftp_fix_of(issue, root) ==
    LET low == lower(issue)
        words == split(issue)
    IN  IF StrIn("not running", low)
        THEN <<"Fix: sudo systemctl start " \o lower(words[1]),
               "sudo systemctl enable " \o lower(words[1])>>
        ELSE IF StrIn("port", low) /\ StrIn("listening", low)
        THEN <<"Fix: Check if service is running",
               "Check /etc/vsftpd.conf for listen settings">>
        ELSE IF StrIn("firewall", low)
        THEN <<"Fix: sudo ufw allow " \o (IF Len(words) > 3 THEN words[4] ELSE "PORT")>>
        ELSE IF StrIn("directory missing", low)
        THEN <<"Fix: sudo mkdir -p " \o root \o "/" \o words[2],
               "sudo chown " \o words[2] \o ":ftpusers " \o root \o "/" \o words[2],
               "sudo chmod 755 " \o root \o "/" \o words[2]>>
        ELSE IF StrIn("ownership mismatch", low)
        THEN <<"Fix: sudo chown " \o words[2] \o ":ftpusers " \o root \o "/" \o words[2]>>
        ELSE <<>>

\* TailscaleDebugger.generate_fixes, 378-398: the lines printed below one issue
ts_fix_of(issue) ==
    LET low == lower(issue)
    IN  IF StrIn("not installed", low) THEN <<"Fix: sudo ./tailscale_setup.py">>
        ELSE IF StrIn("service is not running", low)
        THEN <<"Fix: sudo systemctl start tailscaled", "sudo systemctl enable tailscaled">>
        ELSE IF StrIn("not authenticated", low) THEN <<"Fix: sudo tailscale up">>
        ELSE IF StrIn("no ipv4 address", low)
        THEN <<"Fix: Check authentication and connection", "sudo tailscale status">>
        ELSE IF StrIn("ip forwarding", low)
        THEN <<"Fix: sudo sysctl -w net.ipv4.ip_forward=1",
               "echo 'net.ipv4.ip_forward = 1' | sudo tee /etc/sysctl.d/99-tailscale.conf">>
        ELSE IF StrIn("cannot reach", low)
        THEN <<"Fix: Check internet connectivity", "Check firewall settings",
               "Verify no proxy blocking connections">>
        ELSE <<>>

\* the issues the checks record most often, as printed, and their fixes
\* under the default ftp_root, worked out once
FrequentIssues ==
    {Text(m) : m \in
        {<<d, "is not running">> : d \in {"vsftpd (FTP Server)", "SSH/SFTP Server"}}
        \cup {<<"Port", p, "is not listening">> : p \in {"21", "22"}}
        \cup {<<"Firewall does not allow port", p>> : p \in {"21", "22", "40000:40100"}}
        \cup {<<"Config missing", critical_settings[i]>> : i \in 1..Len(critical_settings)}
        \cup {<<"User", "bob", "directory missing">>, <<"User", "bob", "in list but not in system">>}
        \cup {<<"vsftpd.conf file missing">>, <<"IPv4 and IPv6 both enabled">>,
              <<"FTP root directory missing">>, <<"Port 21 not reachable">>,
              <<"Tailscale is not installed">>, <<"Tailscaled service is not running">>,
              <<"Cannot check authentication status">>, <<"Tailscale is not authenticated">>,
              <<"No IPv4 address">>, <<"IP forwarding disabled (required for exit node)">>,
              <<"Cannot resolve Tailscale coordination server">>,
              <<"Cannot reach Tailscale coordination server">>}}
FtpFixes == [issue \in FrequentIssues |-> ftp_fix_of(issue, "/srv/ftp")]
TsFixes == [issue \in FrequentIssues |-> ts_fix_of(issue)]
fix_of(issue) ==
    LET root == Get(Get(config, "ftp_config", EmptyDict), "ftp_root", "/srv/ftp")
    IN  IF dbg = "ftp"
        THEN IF issue \in FrequentIssues /\ root = "/srv/ftp" THEN FtpFixes[issue]
             ELSE ftp_fix_of(issue, root)
        ELSE IF issue \in FrequentIssues THEN TsFixes[issue] ELSE ts_fix_of(issue)

\* generate_fixes of both debuggers: nothing for an empty issues_found, else
\* the header and, for each issue in order, the issue and its fix lines
generate_fixes(issues) ==
    [printed |-> IF issues = <<>> THEN <<>> ELSE <<"SUGGESTED FIXES">>,
     fixes |-> [i \in 1..Len(issues) |->
                   [issue |-> Text(issues[i]), fix |-> fix_of(Text(issues[i]))]]]

\* the critical section printed whenever there is a warning or an issue
summary_sections_any(warns, issues) ==
    <<"DIAGNOSTIC SUMMARY">>
    \o (IF warns # <<>> THEN <<"Warnings:">> ELSE <<>>)
    \o (IF warns # <<>> \/ issues # <<>>
        THEN <<"Critical Issues Found:">> \o generate_fixes(issues).printed
        ELSE <<"No critical issues found!">>)
\* run_diagnostics: what the summary prints below the four counts
summary_sections(warns, issues) ==
    <<"DIAGNOSTIC SUMMARY">>
    \o (IF warns # <<>> THEN <<"Warnings:">> ELSE <<>>)
    \o (IF issues # <<>>
        THEN <<"Critical Issues Found:">> \o generate_fixes(issues).printed
        ELSE <<"No critical issues found!">>)

\* run_diagnostics: the summary, after the last statement of the checklist:
\* the total it prints, the headings it prints, and the suggested fixes
PrintSummary ==
    /\ dpc = "summary"
    /\ summary' = <<total_checks, summary_sections(warnings, issues_found),
                    generate_fixes(issues_found).fixes>>
    /\ dpc' = "done"
    /\ UNCHANGED <<dbg, dbg_username, invoked, passed_checks, warnings, issues_found, printed>>
    /\ UNCHANGED <<uservars, pwvars, mainvars, race, setup, sockets>>

DbgConfigs ==
    {EmptyDict,
     "tailscale_config" :> (("advertise_exit_node" :> TRUE) @@ ("ssh_enabled" :> TRUE))}

InitDbg ==
    /\ dbg \in {"ftp", "tailscale"}
    /\ dbg_username \in IF dbg = "ftp" THEN {"", "bob"} ELSE {""}
    /\ config \in IF dbg = "tailscale" THEN DbgConfigs ELSE {EmptyDict}
    /\ dpc = Checklist[1]
    /\ invoked = <<>>
    /\ passed_checks = <<>>
    /\ warnings = <<>>
    /\ issues_found = <<>>
    /\ printed = [m \in Marks |-> 0]
    /\ summary = <<>>
    /\ accounts = {}
    /\ userlist = [path |-> "none", exists |-> FALSE, content |-> <<>>]
    /\ cred = [path |-> "none", exists |-> FALSE, mode |-> "none", rows |-> <<>>]
    /\ pc = "idle"
    /\ call = [op |-> "none"]
    /\ hist = [op |-> "none"]
    /\ before = [op |-> "none"]
    /\ ran = <<>>
    /\ PwIdle
    /\ MainIdle
    /\ RaceIdle
    /\ SetupIdle
    /\ SocketsIdle

NextDbg ==
    \/ FtpCheckServices
    \/ FtpCheckPorts
    \/ FtpCheckFirewall
    \/ FtpCheckConfiguration
    \/ FtpCheckUserList
    \/ FtpCheckPermissions
    \/ FtpCheckNetwork
    \/ FtpCheckLogs
    \/ FtpTestConnection
    \/ TsCheckInstallation
    \/ TsCheckService
    \/ TsCheckAuthentication
    \/ TsCheckIpAddresses
    \/ TsCheckConnectivity
    \/ TsCheckRoutes
    \/ TsCheckExitNode
    \/ TsCheckDns
    \/ TsCheckSsh
    \/ TsCheckFirewall
    \/ TsTestConnectivity
    \/ TsCheckLogs
    \/ PrintSummary

SpecDbg == InitDbg /\ [][NextDbg]_vars

(***************************************************************************)
(* Claims about the debuggers (checked under SpecDbg)                      *)
(***************************************************************************)

\* C11: a diagnostic run reaches its summary whatever the external
\* commands do: no exception leaves a check procedure.
C11_NoCheckRaises == dpc # "raised"

SummaryReached == dpc \in {"summary", "done"}

ListOfMark(m) ==
    IF m = "pass" THEN passed_checks ELSE IF m = "warn" THEN warnings ELSE issues_found
PrintedTotal == printed["pass"] + printed["warn"] + printed["fail"]

\* C13 (as stated): every outcome printed with a mark is recorded in the
\* list of that mark, so each list is as long as the number of outcomes
\* printed with its mark and 'Total Checks' is the number of outcomes
\* reported.
C13_EveryMarkedOutcomeRecorded ==
    /\ \A m \in Marks : Len(ListOfMark(m)) = printed[m]
    /\ summary # <<>> => summary[1] = PrintedTotal

\* C13 (amended): every entry of a list was printed with the mark of that
\* list, but an outcome can be printed with a mark and recorded nowhere:
\* each list is at most as long as the number of outcomes printed with its
\* mark, and 'Total Checks' is the number of recorded entries.
C13_RecordedOutcomesWerePrinted ==
    /\ \A m \in Marks : Len(ListOfMark(m)) <= printed[m]
    /\ summary # <<>> =>
           /\ summary[1] = Len(passed_checks) + Len(warnings) + Len(issues_found)
           /\ summary[1] <= PrintedTotal

\* C13 witness: a summary whose 'Total Checks' is smaller than the number of
\* outcomes printed with a mark, with entries in all three lists.
C13_Witness ==
    /\ dpc = "done"
    /\ summary[1] < PrintedTotal
    /\ passed_checks # <<>> /\ warnings # <<>> /\ issues_found # <<>>

(***************************************************************************)
(* Claims about the root check (checked under SpecMain)                    *)
(***************************************************************************)

\* C14: without root (effective uid not 0) ftp_users and tailscale_setup
\* run no menu operation and no setup step: the process never reaches the
\* menu or the steps, and unless it only printed the help text it ends
\* with exit code 1.
C14_NoOperationWithoutRoot ==
    (script \in {"ftp_users", "tailscale_setup"} /\ euid # 0) =>
        /\ opsrun = 0
        /\ mpc \notin {"running", "exit_done", "exit_exception"}
        /\ (mpc \in ExitPositions /\ argv1 \notin HelpFlags) => exitcode = <<1>>

\* C14 witness: ftp_users, started without root with a well-formed
\* configuration, has ended at the root check.
C14_Witness ==
    /\ script = "ftp_users" /\ euid # 0
    /\ cfgfile.kind = "object"
    /\ mpc = "exit_root" /\ exitcode = <<1>>
    /\ opsrun = 0


(***************************************************************************)
(* Claims about the allow-list (Spec)                                      *)
(***************************************************************************)
\* the usernames an allow-list holds
Listed(ul) == existing_users(ul)

\* the call of the last step has returned (it did not raise, and it is not
\* inside _log_credentials)
LastCallReturned == pc = "idle" /\ call.op # "none" /\ call.result # "raised"

\* C15: starting from an empty allow-list, after any sequence of returned
\* create_user, delete_user and change_password calls, every username in the
\* allow-list names an existing account, and every username whose latest
\* create_user succeeded with no successful delete_user since is in the
\* allow-list. Stated as what each returned call keeps: listed names have
\* accounts after it when they had before it; a create_user returning True
\* leaves its username listed; a listed username leaves the allow-list only
\* by a delete_user of it returning True.
C15_AllowListNamesAccounts ==
    (hist.origin = "empty" /\ LastCallReturned) =>
        /\ (\A u \in Listed(before.userlist) : u \in before.accounts)
               => \A u \in Listed(userlist) : user_exists(u)
        /\ (call.op = "create_user" /\ call.result = "ok")
               => call.username \in Listed(userlist)
        /\ \A u \in Listed(before.userlist) \ Listed(userlist) :
               call.op = "delete_user" /\ call.username = u /\ call.result = "ok"

\* the lines of an allow-list that hold a username
NameLines(ul) ==
    LET ls == readlines(ul.content)
    IN  {i \in 1..Len(ls) : Strip(ls[i]) # <<>>}

\* C16: starting from a duplicate-free allow-list, after any sequence of
\* create_user and delete_user calls each username occurs on at most one line
\* of the allow-list.
C16_NoUsernameTwice ==
    LET ls == readlines(userlist.content)
    IN  \A i, j \in NameLines(userlist) : Strip(ls[i]) = Strip(ls[j]) => i = j

(***************************************************************************)
(* Two managers on one allow-list (SpecRace): one is in delete_user(u)     *)
(* after its userdel, the other in create_user(v) after its directories.   *)
(* Each step is one system call on the file; nothing is locked.            *)
(***************************************************************************)
name_abob == <<"a", "b", "o", "b">>
name_bobby == <<"b", "o", "b", "b", "y">>

RaceDeleteNames == {name_bob, name_bobby}
RaceCreateNames == {name_abob, name_bobby}

\* what the allow-list holds when the two calls start; the last one ends
\* without a newline
RaceContents ==
    { <<>>,
      <<"b", "o", "b", "\n">>,
      <<"\n", "b", "o", "b", "\n">>,
      <<"b", "o", "b", "b", "y", "\n", "b", "o", "b", "\n">>,
      <<"b", "o", "b", "\n", "a", "b">> }

RaceUserlists ==
    {[path |-> "/etc/vsftpd.userlist", exists |-> FALSE, content |-> <<>>]}
        \cup {[path |-> "/etc/vsftpd.userlist", exists |-> TRUE, content |-> c] :
                 c \in RaceContents}

\* a file opened for writing without O_TRUNC keeps what it holds
OpenKeep(ul) == [ul EXCEPT !.exists = TRUE]

\* delete_user, 325: open(userlist_file, 'w') empties the file
OpenTruncate(ul) == [ul EXCEPT !.exists = TRUE, !.content = <<>>]

\* delete_user, 325-328: the buffered lines reach the file on close, written
\* from position 0 of a file that is not in append mode
WriteFromStart(content, data) == data \o SubSeq(content, Len(data) + 1, Len(content))

\* create_user, 236-237: open(userlist_file, 'a') writes at the end of file
WriteAtEnd(content, data) == content \o data

raceframe == <<config, accounts, cred, pc, call, hist, before, ran,
               pwvars, mainvars, dbgvars, setup, sockets>>

Stepped(who) == [race EXCEPT !.order = Append(@, who)]

\* delete_user, 321: userlist_file.exists()
DeleteExists ==
    /\ race.dpc = "exists"
    /\ race' = [Stepped("delete") EXCEPT !.dpc = IF userlist.exists THEN "read" ELSE "done"]
    /\ UNCHANGED <<userlist, raceframe>>

\* delete_user, 322-323: lines = f.readlines()
DeleteRead ==
    /\ race.dpc = "read"
    /\ race' = [Stepped("delete") EXCEPT !.dpc = "open", !.lines = readlines(userlist.content)]
    /\ UNCHANGED <<userlist, raceframe>>

\* delete_user, 325: open(userlist_file, 'w')
DeleteOpen ==
    /\ race.dpc = "open"
    /\ userlist' = OpenTruncate(userlist)
    /\ race' = [Stepped("delete") EXCEPT !.dpc = "write"]
    /\ UNCHANGED raceframe

\* delete_user, 326-328: the kept lines are written and the file is closed
DeleteWrite ==
    /\ race.dpc = "write"
    /\ userlist' = [userlist EXCEPT !.content =
                       WriteFromStart(@, JoinLines(SelectSeq(race.lines,
                                                   LAMBDA l : KeepsLine(l, race.u))))]
    /\ race' = [Stepped("delete") EXCEPT !.dpc = "done"]
    /\ UNCHANGED raceframe

\* create_user, 227: userlist_file.exists()
CreateExists ==
    /\ race.cpc = "exists"
    /\ race' = [Stepped("create") EXCEPT !.cpc = IF userlist.exists THEN "read" ELSE "touch"]
    /\ UNCHANGED <<userlist, raceframe>>

\* create_user, 228-229: userlist_file.touch()
CreateTouch ==
    /\ race.cpc = "touch"
    /\ userlist' = TouchUserlist(userlist)
    /\ race' = [Stepped("create") EXCEPT !.cpc = "read"]
    /\ UNCHANGED raceframe

\* create_user, 232-233: existing_users read from the file
CreateRead ==
    /\ race.cpc = "read"
    /\ race' = [Stepped("create") EXCEPT !.cpc = "append", !.existing = existing_users(userlist)]
    /\ UNCHANGED <<userlist, raceframe>>

\* create_user, 235-240: the username appended when no line read equals it.
\* The append falls into the rewrite of delete_user when that has read the
\* file and has not yet written it back.
CreateAppend ==
    /\ race.cpc = "append"
    /\ LET appends == race.v \notin race.existing
       IN  /\ userlist' = IF appends
                          THEN [userlist EXCEPT !.content = WriteAtEnd(@, race.v \o <<"\n">>)]
                          ELSE userlist
           /\ race' = [Stepped("create") EXCEPT
                          !.cpc = "done",
                          !.appended = appends,
                          !.overlapped = appends /\ race.dpc \in {"open", "write"}]
    /\ UNCHANGED raceframe

InitRace ==
    /\ userlist \in RaceUserlists
    /\ \E u \in RaceDeleteNames, v \in RaceCreateNames :
          /\ u # v
          /\ race = [u |-> u, v |-> v, initial |-> userlist, order |-> <<>>,
                     dpc |-> "exists", lines |-> <<>>,
                     cpc |-> "exists", existing |-> {},
                     appended |-> FALSE, overlapped |-> FALSE]
          /\ accounts = {v}
    /\ config = EmptyDict
    /\ cred = [path |-> "none", exists |-> FALSE, mode |-> "none", rows |-> <<>>]
    /\ pc = "idle"
    /\ call = [op |-> "none"]
    /\ hist = [op |-> "none"]
    /\ before = [op |-> "none"]
    /\ ran = <<>>
    /\ PwIdle
    /\ MainIdle
    /\ DbgIdle
    /\ SetupIdle
    /\ SocketsIdle

NextRace ==
    \/ DeleteExists
    \/ DeleteRead
    \/ DeleteOpen
    \/ DeleteWrite
    \/ CreateExists
    \/ CreateTouch
    \/ CreateRead
    \/ CreateAppend

SpecRace == InitRace /\ [][NextRace]_vars

\* both calls have left their allow-list sections
RaceDone == race.dpc = "done" /\ race.cpc = "done"

\* every line of the content ends with a newline
Terminated(content) == content = <<>> \/ content[Len(content)] = "\n"

FinalListHasVNotU == race.v \in Listed(userlist) /\ race.u \notin Listed(userlist)

\* C17: with delete_user(u) and create_user(v), v # u, running concurrently
\* without locking, in every interleaving of their allow-list reads and writes
\* the final allow-list contains v and does not contain u (looked at on an
\* allow-list whose lines all end with a newline).
C17_FinalListInEveryInterleaving ==
    (RaceDone /\ Terminated(race.initial.content)) => FinalListHasVNotU

\* C17 (amended): the final allow-list contains v and does not contain u in
\* every interleaving in which create_user's append does not fall between
\* delete_user's read of the file and its write back, on an allow-list whose
\* lines all end with a newline.
C17_FinalListWhenAppendOutsideRewrite ==
    (RaceDone /\ Terminated(race.initial.content) /\ ~race.overlapped) => FinalListHasVNotU

\* the steps of the two calls alternate, u was listed and is rewritten away,
\* v is appended outside the rewrite
C17_Witness ==
    /\ RaceDone
    /\ Terminated(race.initial.content)
    /\ ~race.overlapped
    /\ race.appended
    /\ race.u \in Listed(race.initial)
    /\ race.lines # <<>>
    /\ \E i, j, k \in 1..Len(race.order) :
          /\ i < j /\ j < k
          /\ race.order[i] = "create" /\ race.order[j] = "delete" /\ race.order[k] = "create"

(***************************************************************************)
(* Claims about what a failing call leaves alone (Spec)                    *)
(***************************************************************************)
\* create_user or change_password has returned failure
CredentialCallFailed ==
    /\ pc = "idle"
    /\ call.op \in {"create_user", "change_password"}
    /\ call.result = "fail"

\* C18: a credential operation that returns failure adds no row to the
\* credential log: the log is exactly as it was before the call.
C18_FailureAddsNoRow == CredentialCallFailed => cred = before.cred

\* C18 witness: a call fails in chpasswd while the log holds a row already
C18_Witness ==
    /\ CredentialCallFailed
    /\ call.failed = "chpasswd"
    /\ Len(CredentialRowsOf(cred.rows)) > 0

\* create_user was called with a username that fails validation or that
\* names an account
RejectedCreate ==
    /\ Returned
    /\ call.op = "create_user"
    /\ (~ValidUsername(call.username) \/ call.username \in before.accounts)

\* C19: create_user called with a username that fails validation or that
\* already exists as an account returns (False, username, "") and changes
\* nothing: it runs no useradd, chpasswd or userdel, creates no directory,
\* and leaves the accounts, the allow-list and the credential log as they were.
C19_RejectedCreateChangesNothing ==
    RejectedCreate =>
        /\ call.ret = <<FALSE, call.username, "">>
        /\ ran = <<>>
        /\ Snapshot = before

\* C19 witness: create_user for an account that exists, with an allow-list
\* and a credential log in place
C19_Witness ==
    /\ RejectedCreate
    /\ call.username \in before.accounts
    /\ userlist.exists
    /\ Len(CredentialRowsOf(cred.rows)) > 0

\* delete_user has returned without the account being removed by it: there
\* was no such account, or userdel exited non-zero
DeleteWithoutRemoval ==
    /\ Returned
    /\ call.result # "raised"
    /\ call.op = "delete_user"
    /\ \/ call.username \notin before.accounts
       \/ call.username \in accounts
       \/ \E i \in 1..Len(ran) : ran[i].cmd = "userdel -r" /\ ran[i].rc # 0

\* C20: delete_user returns False and leaves the allow-list file unchanged
\* whenever the account is not removed: when the username names no account
\* (even if the allow-list holds it) and when the userdel command fails.
C20_FailedDeleteKeepsAllowList ==
    DeleteWithoutRemoval => (call.ret = FALSE /\ userlist = before.userlist)

\* C20 witness: delete_user for a username that the allow-list holds and that
\* names no account
C20_Witness ==
    /\ DeleteWithoutRemoval
    /\ call.username \notin before.accounts
    /\ call.username \in Listed(before.userlist)

\* C21: the credential log holds its header row exactly once, as its first
\* row: starting from an absent file, the first credential operation writes
\* the header and every later row is a credential row.
C21_HeaderOnceAndFirst ==
    (cred.exists /\ Len(cred.rows) > 0) =>
        /\ cred.rows[1] = HeaderRow
        /\ \A i \in 2..Len(cred.rows) : cred.rows[i] # HeaderRow

\* the characters of the classes the policy enables
EnabledCharacters == UNION {ClassCharacters(c) : c \in {k \in ClassNames : ClassEnabled(k)}}
AmbiguousCharacters == {"l", "o", "I", "O", "0", "1"}
ExcludeAmbiguousOn ==
    IF "exclude_ambiguous" \in DOMAIN policy THEN policy["exclude_ambiguous"] ELSE TRUE

\* C22: every character of a generated password is a character of an enabled
\* class (lowercase, uppercase, digits, the configured special characters),
\* and with exclude_ambiguous on none of l, o, I, O, 0, 1 is in it unless it
\* is one of the configured special characters.
C22_CharactersFromEnabledClasses ==
    pw.status = "ok" =>
        \A i \in 1..Len(pw.value) :
            /\ pw.value[i] \in EnabledCharacters
            /\ (ExcludeAmbiguousOn /\ pw.value[i] \in AmbiguousCharacters)
                   => pw.value[i] \in ClassCharacters("special")

\* C22 witness: with exclude_ambiguous on and '0' configured as the special
\* character, a password holding that '0' next to a lowercase letter was
\* returned while the digits are disabled
C22_Witness ==
    /\ pw.status = "ok"
    /\ ExcludeAmbiguousOn
    /\ ClassEnabled("lowercase") /\ ClassEnabled("special") /\ ~ClassEnabled("digits")
    /\ \E i, j \in 1..Len(pw.value) : pw.value[i] = "0" /\ pw.value[j] = "a"

(***************************************************************************)
(* TailscaleSetup (tailscale_setup.py 16-440)                              *)
(***************************************************************************)

\* ---- the configuration: self.tailscale_config and self.network_config
route_lan == "10.0.0.0/24"
exit_node_peer == "100.64.0.2"
TailscaleConfigs ==
    WithKey(WithKey({EmptyDict}, "advertise_exit_node", {TRUE, FALSE}),
            "advertise_routes", {<<>>, <<route_lan>>})
NetworkConfigs ==
    WithKey(WithKey(WithKey({EmptyDict}, "ipv4_enabled", {FALSE}),
                    "ipv6_enabled", {TRUE}),
            "exit_node", {exit_node_peer})

\* ---- what the commands answer
\* a command the step has run and its exit status; -1 for a command that
\* could not be started (FileNotFoundError)
Ran(cmd, rc) == [cmd |-> cmd, rc |-> rc]
RanOutcome(cmd, o) == Ran(cmd, IF o.kind = "exit" THEN o.code ELSE -1)
NoReply == [kind |-> "none", code |-> 0, stdout |-> {}, json |-> JInvalid]
ExitCodes == {0, 1}
\* `tailscale status`; without the binary the command cannot be started
SetupStatusReplies(present) ==
    IF present
    THEN {Completed(0, {"self"}), Completed(0, {"not logged in"}), Completed(1, {"logged out"})}
    ELSE {NotStarted}
\* `tailscale up`, `tailscale set`, `tailscale ip`
TailscaleReplies(present) ==
    IF present THEN {Completed(rc, {}) : rc \in ExitCodes} ELSE {NotStarted}
\* `systemctl is-active tailscaled`
IsActiveReplies == {Completed(0, {"active"}), Completed(3, {"inactive"}), NotStarted}

\* ---- /etc/sysctl.d/99-tailscale.conf
sysctl_conf == "/etc/sysctl.d/99-tailscale.conf"
ipv4_line == "net.ipv4.ip_forward = 1\n"
ipv6_line == "net.ipv6.conf.all.forwarding = 1\n"
SysctlConfs ==
    {[path |-> sysctl_conf, exists |-> FALSE, lines |-> <<>>],
     [path |-> sysctl_conf, exists |-> TRUE, lines |-> <<ipv6_line>>]}
\* the file opened with 'a': what it held stays in front
AppendSysctlConf(c, lines) == [path |-> sysctl_conf, exists |-> TRUE, lines |-> c.lines \o lines]
\* enable_ip_forwarding, 263-267: open(sysctl_conf, 'w') and the writes
WriteSysctlConf(c, lines) == [path |-> sysctl_conf, exists |-> TRUE, lines |-> lines]

\* ---- the step functions: what each returns (ret), the commands it ran,
\* whether an exception left it, and the binary and the file afterwards
StepResult(ret, cmds, raised, present, conf, wrote, status) ==
    [ret |-> ret, cmds |-> cmds, raised |-> raised, present |-> present,
     conf |-> conf, wrote |-> wrote, status |-> status]

\* a check that never finds the binary
is_installed_never(present) == FALSE
\* is_installed, 48-58: `which tailscale` exits 0
is_installed(present) == present

\* install_tailscale, 60-125
install_tailscale(present, conf, version, curl_rc, sh_rc) ==
    LET which == Ran("which tailscale", IF present THEN 0 ELSE 1)
    IN  IF is_installed(present)
        THEN StepResult(TRUE, <<which, RanOutcome("tailscale version", version)>>,
                        FALSE, present, conf, FALSE, NoReply)
        ELSE IF curl_rc # 0
        THEN StepResult(FALSE, <<which, Ran("curl", curl_rc)>>,
                        FALSE, present, conf, FALSE, NoReply)
        ELSE IF sh_rc # 0
        THEN StepResult(FALSE, <<which, Ran("curl", 0), Ran("sh", sh_rc)>>,
                        FALSE, present, conf, FALSE, NoReply)
        ELSE StepResult(TRUE, <<which, Ran("curl", 0), Ran("sh", 0)>>,
                        FALSE, TRUE, conf, FALSE, NoReply)

\* is_logged_in, 127-142: exit status 0 and no 'not logged in' in the
\* lowered output; any exception gives False
is_logged_in(status) ==
    IF status.kind # "exit" THEN FALSE
    ELSE status.code = 0 /\ "not logged in" \notin status.stdout

\* login_tailscale, 144-209
login_tailscale(present, conf, status, up) ==
    IF is_logged_in(status)
    THEN StepResult(TRUE, <<RanOutcome("tailscale status", status)>>,
                    FALSE, present, conf, FALSE, status)
    ELSE StepResult(up.kind = "exit" /\ up.code = 0,
                    <<RanOutcome("tailscale status", status), RanOutcome("tailscale up", up)>>,
                    FALSE, present, conf, FALSE, status)

\* configure_exit_node, 211-231: only CalledProcessError is handled, the
\* FileNotFoundError of a missing binary leaves the function
configure_exit_node(nc, present, conf, set) ==
    IF Get(nc, "exit_node", "") = ""
    THEN StepResult(TRUE, <<>>, FALSE, present, conf, FALSE, NoReply)
    ELSE IF set.kind # "exit"
    THEN StepResult(FALSE, <<RanOutcome("tailscale set", set)>>, TRUE, present, conf, FALSE, NoReply)
    ELSE StepResult(set.code = 0, <<RanOutcome("tailscale set", set)>>,
                    FALSE, present, conf, FALSE, NoReply)

\* enable_ip_forwarding, 235-237: `not (advertise_exit_node or advertise_routes)`
forwarding_needed(tc) ==
    Get(tc, "advertise_exit_node", FALSE) \/ Get(tc, "advertise_routes", <<>>) # <<>>
ipv4_enabled(nc) == Get(nc, "ipv4_enabled", TRUE)
ipv6_enabled(nc) == Get(nc, "ipv6_enabled", FALSE)

\* enable_ip_forwarding, 233-277: rc4 and rc6 are the exit statuses of the
\* two sysctl commands, open_ok is whether the file could be opened
enable_ip_forwarding(tc, nc, present, conf, rc4, rc6, open_ok) ==
    LET cmd4 == IF ipv4_enabled(nc) THEN <<Ran("sysctl -w net.ipv4.ip_forward=1", rc4)>> ELSE <<>>
        cmd6 == IF ipv6_enabled(nc)
                THEN <<Ran("sysctl -w net.ipv6.conf.all.forwarding=1", rc6)>> ELSE <<>>
        lines == (IF ipv4_enabled(nc) THEN <<ipv4_line>> ELSE <<>>)
                 \o (IF ipv6_enabled(nc) THEN <<ipv6_line>> ELSE <<>>)
    IN  IF ~forwarding_needed(tc)
        THEN StepResult(TRUE, <<>>, FALSE, present, conf, FALSE, NoReply)
        ELSE IF ipv4_enabled(nc) /\ rc4 # 0
        THEN StepResult(FALSE, cmd4, FALSE, present, conf, FALSE, NoReply)
        ELSE IF ipv6_enabled(nc) /\ rc6 # 0
        THEN StepResult(FALSE, cmd4 \o cmd6, FALSE, present, conf, FALSE, NoReply)
        ELSE IF ~open_ok
        THEN StepResult(FALSE, cmd4 \o cmd6, FALSE, present, conf, FALSE, NoReply)
        ELSE StepResult(TRUE, cmd4 \o cmd6, FALSE, present,
                        WriteSysctlConf(conf, lines), TRUE, NoReply)

\* verify_installation, 333-373: all(checks)
verify_installation(present, conf, active, status) ==
    LET checks == <<is_installed(present),
                    active.kind = "exit" /\ active.stdout = {"active"},
                    is_logged_in(status)>>
    IN  StepResult(\A i \in 1..Len(checks) : checks[i],
                   <<Ran("which tailscale", IF present THEN 0 ELSE 1),
                     RanOutcome("systemctl is-active tailscaled", active),
                     RanOutcome("tailscale status", status)>>,
                   FALSE, present, conf, FALSE, status)

\* _print_summary, 407-440: show_ip (298-331) and show_status (279-296)
\* handle only CalledProcessError; without the binary `tailscale ip -4`
\* raises FileNotFoundError after the SETUP COMPLETE banner
print_summary(present, ip) ==
    IF ip.kind # "exit" THEN [printed |-> <<"SETUP COMPLETE">>, raised |-> TRUE]
    ELSE [printed |-> <<"SETUP COMPLETE", "Configuration", "Useful Commands", "Admin Console">>,
          raised |-> FALSE]

\* ---- run, 375-405
steps == <<"Installing Tailscale", "Enabling IP forwarding", "Authenticating Tailscale",
           "Configuring exit node", "Verifying installation">>

NoStep ==
    [name |-> "none", present |-> FALSE, conf |-> [path |-> sysctl_conf, exists |-> FALSE, lines |-> <<>>],
     result |-> StepResult(TRUE, <<>>, FALSE, FALSE,
                           [path |-> sysctl_conf, exists |-> FALSE, lines |-> <<>>], FALSE, NoReply)]

\* run, 380-382: check_root
RunStart ==
    /\ setup.spc = "start"
    /\ setup' = IF setup.root THEN [setup EXCEPT !.spc = steps[1]]
                ELSE [setup EXCEPT !.spc = "done", !.result = "False"]
    /\ UNCHANGED <<pwvars, uservars, mainvars, dbgvars, race, sockets>>

\* run, 392-403: one iteration of `for description, func in steps`; a False
\* prints the warning and the loop goes on, an exception leaves run
Iteration(i, r) ==
    [setup EXCEPT !.spc = IF r.raised THEN "done"
                          ELSE IF i < Len(steps) THEN steps[i + 1] ELSE "summary",
                  !.executed = Append(@, steps[i]),
                  !.warned = IF ~r.raised /\ ~r.ret THEN @ \cup {steps[i]} ELSE @,
                  !.last = [name |-> steps[i], present |-> setup.present,
                            conf |-> setup.conf, result |-> r],
                  !.present = r.present,
                  !.conf = r.conf,
                  !.result = IF r.raised THEN "raised" ELSE @]

StepInstall ==
    /\ setup.spc = steps[1]
    /\ \E version \in TailscaleReplies(setup.present), curl_rc, sh_rc \in ExitCodes :
          setup' = Iteration(1, install_tailscale(setup.present, setup.conf, version, curl_rc, sh_rc))
    /\ UNCHANGED <<pwvars, uservars, mainvars, dbgvars, race, sockets>>

StepForwarding ==
    /\ setup.spc = steps[2]
    /\ \E rc4, rc6 \in ExitCodes, open_ok \in BOOLEAN :
          setup' = Iteration(2, enable_ip_forwarding(setup.tc, setup.nc, setup.present,
                                                     setup.conf, rc4, rc6, open_ok))
    /\ UNCHANGED <<pwvars, uservars, mainvars, dbgvars, race, sockets>>

StepLogin ==
    /\ setup.spc = steps[3]
    /\ \E status \in SetupStatusReplies(setup.present), up \in TailscaleReplies(setup.present) :
          setup' = Iteration(3, login_tailscale(setup.present, setup.conf, status, up))
    /\ UNCHANGED <<pwvars, uservars, mainvars, dbgvars, race, sockets>>

StepExitNode ==
    /\ setup.spc = steps[4]
    /\ \E set \in TailscaleReplies(setup.present) :
          setup' = Iteration(4, configure_exit_node(setup.nc, setup.present, setup.conf, set))
    /\ UNCHANGED <<pwvars, uservars, mainvars, dbgvars, race, sockets>>

StepVerify ==
    /\ setup.spc = steps[5]
    /\ \E active \in IsActiveReplies, status \in SetupStatusReplies(setup.present) :
          setup' = Iteration(5, verify_installation(setup.present, setup.conf, active, status))
    /\ UNCHANGED <<pwvars, uservars, mainvars, dbgvars, race, sockets>>

\* run, 404-405: self._print_summary(); return True
RunSummary ==
    /\ setup.spc = "summary"
    /\ \E ip \in TailscaleReplies(setup.present) :
          LET s == print_summary(setup.present, ip)
          IN  setup' = [setup EXCEPT !.spc = "done",
                                     !.summary = s.printed,
                                     !.result = IF s.raised THEN "raised" ELSE "True"]
    /\ UNCHANGED <<pwvars, uservars, mainvars, dbgvars, race, sockets>>

InitSetup ==
    /\ \E root, present \in BOOLEAN, tc \in TailscaleConfigs, nc \in NetworkConfigs,
          conf \in SysctlConfs :
          setup = [spc |-> "start", root |-> root, tc |-> tc, nc |-> nc,
                   present |-> present, conf |-> conf, executed |-> <<>>,
                   warned |-> {}, last |-> NoStep, summary |-> <<>>, result |-> "none"]
    /\ PwIdle
    /\ UserIdle
    /\ MainIdle
    /\ DbgIdle
    /\ RaceIdle
    /\ SocketsIdle

NextSetup ==
    \/ RunStart
    \/ StepInstall
    \/ StepForwarding
    \/ StepLogin
    \/ StepExitNode
    \/ StepVerify
    \/ RunSummary

SpecSetup == InitSetup /\ [][NextSetup]_vars

\* ---- claims about TailscaleSetup
StepOrder == <<"Installing Tailscale", "Enabling IP forwarding", "Authenticating Tailscale",
               "Configuring exit node", "Verifying installation">>
SummaryPrinted == \E i \in 1..Len(setup.summary) : setup.summary[i] = "Admin Console"
RunEnded == setup.spc = "done"

\* C23: run as root, TailscaleSetup.run executes its steps exactly once each
\* in the order install, enable IP forwarding, authenticate, configure exit
\* node, verify; a failed authentication or exit-node step does not keep the
\* following steps from running, the summary is printed after the last step
\* and run returns True.
C23_RunExecutesEveryStepAndReturnsTrue ==
    /\ IsPrefix(setup.executed, StepOrder)
    /\ setup.summary # <<>> => setup.executed = StepOrder
    /\ (setup.root /\ RunEnded) =>
           /\ setup.executed = StepOrder
           /\ SummaryPrinted
           /\ setup.result = "True"

LastStep(name) == setup.last.name = name
LastRan(cmd) ==
    \E i \in 1..Len(setup.last.result.cmds) : setup.last.result.cmds[i].cmd = cmd
\* `tailscale status` answered, with exit status 0 and without 'not logged in'
ReportedLoggedIn ==
    LET status == setup.last.result.status
    IN  status.kind = "exit" /\ status.code = 0 /\ "not logged in" \notin status.stdout

\* C24: install_tailscale downloads and runs no installer when the tailscale
\* binary is present already, login_tailscale runs no 'tailscale up' when
\* 'tailscale status' reports a logged-in state, and both return True then.
C24_DoneStepsAreNotRedone ==
    /\ (LastStep("Installing Tailscale") /\ setup.last.present) =>
           /\ ~LastRan("curl") /\ ~LastRan("sh")
           /\ setup.last.result.ret
           /\ setup.present
    /\ (LastStep("Authenticating Tailscale") /\ ReportedLoggedIn) =>
           /\ ~LastRan("tailscale up")
           /\ setup.last.result.ret

\* C24 witness: login_tailscale has returned after `tailscale status`
\* reported a logged-in state, in a run whose install step found the binary
\* present
C24_Witness ==
    /\ LastStep("Authenticating Tailscale")
    /\ ReportedLoggedIn
    /\ LastRan("tailscale status")
    /\ "Installing Tailscale" \notin setup.warned

ForwardingConfigured ==
    \/ ("advertise_exit_node" \in DOMAIN setup.tc /\ setup.tc["advertise_exit_node"])
    \/ ("advertise_routes" \in DOMAIN setup.tc /\ setup.tc["advertise_routes"] # <<>>)
FamilyEnabled(family) ==
    CASE family = "IPv4" -> IF "ipv4_enabled" \in DOMAIN setup.nc
                            THEN setup.nc["ipv4_enabled"] ELSE TRUE
      [] family = "IPv6" -> IF "ipv6_enabled" \in DOMAIN setup.nc
                            THEN setup.nc["ipv6_enabled"] ELSE FALSE
FamilyLine(family) ==
    CASE family = "IPv4" -> "net.ipv4.ip_forward = 1\n"
      [] family = "IPv6" -> "net.ipv6.conf.all.forwarding = 1\n"
FamilyCommand(family) ==
    CASE family = "IPv4" -> "sysctl -w net.ipv4.ip_forward=1"
      [] family = "IPv6" -> "sysctl -w net.ipv6.conf.all.forwarding=1"
Families == {"IPv4", "IPv6"}
SysctlSucceeded(family) ==
    \E i \in 1..Len(setup.last.result.cmds) :
        setup.last.result.cmds[i] = [cmd |-> FamilyCommand(family), rc |-> 0]

port_21 == <<"2", "1">>
port_22 == <<"2", "2">>
port_20 == <<"2", "0">>
port_2222 == <<"2", "2", "2", "2">>
port_2121 == <<"2", "1", "2", "1">>
ListedPorts == {port_21, port_22, port_20, port_2222, port_2121}
\* the line of `netstat -tuln` and of `ss -tuln` for a listening socket, from
\* its local address on: '0.0.0.0:22   0.0.0.0:*   LISTEN'
ListingLine(port) == <<"0.0.0.0", ":">> \o port \o <<" ", "0.0.0.0:*", " ", "LISTEN">>
\* the characters of f':{port}'
FragmentText(fragment) ==
    CASE fragment = ":21" -> <<":">> \o port_21
      [] fragment = ":22" -> <<":">> \o port_22
      [] fragment = ":20" -> <<":">> \o port_20
\* f':{port}' in stdout, for a listing of the sockets listening on `ports`:
\* the fragments that are part of one of its lines
FragmentsShown(ports) ==
    {f \in {":21", ":22", ":20"} :
        \E port \in ports : ContainsAt(ListingLine(port), FragmentText(f), 1)}

\* what the two commands answer: a listing with exit status 0, no output
\* with a non-zero exit status (the command is missing), or a timeout
Listening(ports) == [kind |-> "exit", code |-> 0, ports |-> ports]
NotListed == [kind |-> "exit", code |-> 127, ports |-> {}]
ListingTimedOut == [kind |-> "timeout", code |-> 0, ports |-> {}]
ListingReplies == {Listening(ports) : ports \in SUBSET ListedPorts} \cup {NotListed, ListingTimedOut}
\* the reply as subprocess.run hands it to _run_command
ReplyOf(reply) ==
    IF reply.kind = "exit" THEN Completed(reply.code, FragmentsShown(reply.ports)) ELSE TimedOut

\* check_ports called on a fresh FTPDebugger
CheckPorts ==
    /\ sockets.netstat.kind # "none"
    /\ RunCheck("ftp", "check_ports", check_ports(ReplyOf(sockets.netstat), ReplyOf(sockets.ss)))
    /\ UNCHANGED sockets

InitPorts ==
    /\ sockets \in [netstat : ListingReplies, ss : ListingReplies]
    /\ dbg = "ftp"
    /\ dbg_username = ""
    /\ config = EmptyDict
    /\ dpc = "check_ports"
    /\ invoked = <<>>
    /\ passed_checks = <<>>
    /\ warnings = <<>>
    /\ issues_found = <<>>
    /\ printed = [m \in Marks |-> 0]
    /\ summary = <<>>
    /\ accounts = {}
    /\ userlist = [path |-> "none", exists |-> FALSE, content |-> <<>>]
    /\ cred = [path |-> "none", exists |-> FALSE, mode |-> "none", rows |-> <<>>]
    /\ pc = "idle"
    /\ call = [op |-> "none"]
    /\ hist = [op |-> "none"]
    /\ before = [op |-> "none"]
    /\ ran = <<>>
    /\ PwIdle
    /\ MainIdle
    /\ RaceIdle
    /\ SetupIdle

NextPorts == CheckPorts

SpecPorts == InitPorts /\ [][NextPorts]_vars

\* the listing check_ports reads: netstat's, or that of ss when netstat
\* exits non-zero
ListingRead ==
    IF sockets.netstat.kind = "exit" /\ sockets.netstat.code = 0
    THEN sockets.netstat.ports ELSE sockets.ss.ports
CheckedPorts == <<"21", "22", "20">>
PortNumber(p) == CASE p = "21" -> <<"2", "1">> [] p = "22" -> <<"2", "2">> [] p = "20" -> <<"2", "0">>
InList(list, msg) == \E i \in 1..Len(list) : list[i] = msg
EntriesFor(p) ==
    Len(SelectSeq(passed_checks \o warnings \o issues_found, LAMBDA msg : msg[2] = p))

\* C26: check_ports records 'Port p is listening' for p in 21, 22, 20 exactly
\* when the listing of netstat (or of ss, read only when netstat exits
\* non-zero) shows a socket listening on port p; every port gives exactly
\* one entry, a missing port 20 a warning and a missing port 21 or 22 an
\* issue.
C26_ListeningIffSocketOnPort ==
    invoked = <<"check_ports">> =>
        \A i \in 1..Len(CheckedPorts) :
            LET p == CheckedPorts[i]
            IN  /\ InList(passed_checks, <<"Port", p, "is listening">>)
                       <=> PortNumber(p) \in ListingRead
                /\ EntriesFor(p) = 1
                /\ PortNumber(p) \notin ListingRead =>
                       IF p = "20" THEN InList(warnings, <<"Port", p, "not listening">>)
                       ELSE InList(issues_found, <<"Port", p, "is not listening">>)

\* C27: for every issue 'Firewall does not allow port P' of the FTP
\* debugger, the fix that generate_fixes prints is 'sudo ufw allow P' with
\* the same P (21, 22 or 40000:40100).
C27_FirewallFixNamesThePort ==
    (dbg = "ftp" /\ summary # <<>>) =>
        \A i \in 1..Len(summary[3]) :
            \A P \in {"21", "22", "40000:40100"} :
                summary[3][i].issue = "Firewall does not allow port " \o P =>
                    summary[3][i].fix = <<"Fix: sudo ufw allow " \o P>>

SectionPrinted(title) == \E i \in 1..Len(summary[2]) : summary[2][i] = title
SectionBefore(first, second) ==
    \E i, j \in 1..Len(summary[2]) : i < j /\ summary[2][i] = first /\ summary[2][j] = second

\* C28: the summary of both debuggers prints 'No critical issues found'
\* exactly when issues_found is empty and the critical-issues list followed
\* by the suggested fixes exactly when it is not; warnings alone never give
\* the critical-issues section; the printed total is the sum of the lengths
\* of the three lists.
C28_SummaryFollowsIssues ==
    summary # <<>> =>
        /\ SectionPrinted("No critical issues found!") <=> issues_found = <<>>
        /\ SectionPrinted("Critical Issues Found:") <=> issues_found # <<>>
        /\ SectionPrinted("SUGGESTED FIXES") <=> issues_found # <<>>
        /\ issues_found # <<>> =>
               /\ SectionBefore("Critical Issues Found:", "SUGGESTED FIXES")
               /\ Len(summary[3]) = Len(issues_found)
        /\ summary[1] = Len(passed_checks) + Len(warnings) + Len(issues_found)

\* C28 witness: a summary printed with warnings and without issues
C28_Witness ==
    /\ summary # <<>>
    /\ warnings # <<>>
    /\ issues_found = <<>>
    /\ SectionPrinted("Warnings:")
    /\ SectionPrinted("No critical issues found!")

====
